---- MODULE Spec2Model ----
(***************************************************************************)
(* dstate: an in-memory cache of guilds, channels and messages kept up to  *)
(* date by a stream of gateway events.  The module models the root State,  *)
(* the GuildState and ChannelState objects it points to, and the message   *)
(* window of each channel, as the Go sources implement them.               *)
(***************************************************************************)
EXTENDS Integers, Sequences, FiniteSets, TLC

(***************************************************************************)
(* Bounds of the model.                                                    *)
(***************************************************************************)
NumMessageIDs == 3
MaxTime == 3
MaxArrivals == 4

(***************************************************************************)
(* Values.                                                                 *)
(***************************************************************************)
NilAddr == 0
ZeroTime == 0
Unbounded == -1

None == <<>>
Some(x) == <<x>>

EmptyStr == ""

\* A discordgo.Timestamp is a string: empty, malformed, or well formed
\* and naming an instant.
EmptyTimestamp == <<>>
BadTimestamp == <<"x">>
TimestampOf(t) == <<"T", t>>

\* Timestamp.Parse: the instant of a well-formed string; the zero time
\* (with an error the callers discard) for anything else.
Parse(ts) == IF Len(ts) = 2 /\ ts[1] = "T" THEN ts[2] ELSE ZeroTime

MessageIDs == 1..NumMessageIDs
Times == 1..MaxTime

(***************************************************************************)
(* MessageState and the message window of a channel.                       *)
(***************************************************************************)

\* ParseTimes: the cached times are re-derived from the non-empty
\* timestamp strings only.
ParseTimes(ms) ==
    [ms EXCEPT
        !.ParsedCreated = IF ms.Message.Timestamp # EmptyTimestamp
                          THEN Parse(ms.Message.Timestamp) ELSE @,
        !.ParsedEdited = IF ms.Message.EditedTimestamp # EmptyTimestamp
                         THEN Parse(ms.Message.EditedTimestamp) ELSE @]

\* The MessageState a new message is wrapped in.
NewMessageState(msg) ==
    ParseTimes([Message |-> msg, Deleted |-> FALSE,
                ParsedCreated |-> ZeroTime, ParsedEdited |-> ZeroTime])

\* A patch that takes the incoming content even when it is empty.
PatchMessageTakesEmptyContent(old, msg) ==
    [old EXCEPT
        !.Content = msg.Content,
        !.EditedTimestamp = IF msg.EditedTimestamp # EmptyTimestamp
                            THEN msg.EditedTimestamp ELSE @,
        !.Mentions = IF msg.Mentions # None THEN msg.Mentions ELSE @,
        !.Embeds = IF msg.Embeds # None THEN msg.Embeds ELSE @,
        !.Attachments = IF msg.Attachments # None THEN msg.Attachments ELSE @,
        !.Timestamp = IF msg.Timestamp # EmptyTimestamp THEN msg.Timestamp ELSE @,
        !.Author = IF msg.Author # None THEN msg.Author ELSE @]

\* The field-by-field patch of MessageState.Update.
PatchMessage(old, msg) ==
    [old EXCEPT
        !.Content = IF msg.Content # EmptyStr THEN msg.Content ELSE @,
        !.EditedTimestamp = IF msg.EditedTimestamp # EmptyTimestamp
                            THEN msg.EditedTimestamp ELSE @,
        !.Mentions = IF msg.Mentions # None THEN msg.Mentions ELSE @,
        !.Embeds = IF msg.Embeds # None THEN msg.Embeds ELSE @,
        !.Attachments = IF msg.Attachments # None THEN msg.Attachments ELSE @,
        !.Timestamp = IF msg.Timestamp # EmptyTimestamp THEN msg.Timestamp ELSE @,
        !.Author = IF msg.Author # None THEN msg.Author ELSE @]

\* MessageState.Update
MessageStateUpdate(ms, msg) ==
    ParseTimes([ms EXCEPT !.Message = PatchMessage(@, msg)])

\* ChannelState.Message: the index of the first entry with the id, 0 for nil.
RECURSIVE FindMessage(_, _, _)
FindMessage(msgs, mID, i) ==
    IF i > Len(msgs) THEN 0
    ELSE IF msgs[i].Message.ID = mID THEN i
    ELSE FindMessage(msgs, mID, i + 1)

MessageIndex(msgs, mID) == FindMessage(msgs, mID, 1)

\* msgs[k:] of Go, k counted from 0.
SliceFrom(msgs, k) == SubSeq(msgs, k + 1, Len(msgs))

\* An age loop that takes an entry with no created time for an old one.
RECURSIVE AgeScanStopsAtZeroTime(_, _, _, _)
AgeScanStopsAtZeroTime(msgs, i, maxAge, t) ==
    IF i < 0 THEN msgs
    ELSE IF t - msgs[i + 1].ParsedCreated > maxAge THEN SliceFrom(msgs, i)
    ELSE AgeScanStopsAtZeroTime(msgs, i - 1, maxAge, t)

\* An age loop that cuts the entry it stops at along with those before it.
RECURSIVE AgeScanCutsOldEntry(_, _, _, _)
AgeScanCutsOldEntry(msgs, i, maxAge, t) ==
    IF i < 0 THEN msgs
    ELSE IF msgs[i + 1].ParsedCreated = ZeroTime
         THEN AgeScanCutsOldEntry(msgs, i - 1, maxAge, t)
    ELSE IF t - msgs[i + 1].ParsedCreated > maxAge THEN SliceFrom(msgs, i + 1)
    ELSE AgeScanCutsOldEntry(msgs, i - 1, maxAge, t)

\* The age loop of UpdateMessages, from the newest entry (i counted from 0).
RECURSIVE AgeScan(_, _, _, _)
AgeScan(msgs, i, maxAge, t) ==
    IF i < 0 THEN msgs
    ELSE IF msgs[i + 1].ParsedCreated = ZeroTime THEN AgeScan(msgs, i - 1, maxAge, t)
    ELSE IF t - msgs[i + 1].ParsedCreated > maxAge THEN SliceFrom(msgs, i)
    ELSE AgeScan(msgs, i - 1, maxAge, t)

\* A count check that lets one entry too many stay.
CountTrimKeepsOneMore(msgs, maxMsgs) ==
    IF Len(msgs) > maxMsgs + 1 /\ maxMsgs # Unbounded
    THEN SliceFrom(msgs, Len(msgs) - maxMsgs - 1)
    ELSE msgs

\* A count check that cuts the newest entries instead of the oldest.
CountTrimCutsNewest(msgs, maxMsgs) ==
    IF Len(msgs) > maxMsgs /\ maxMsgs # Unbounded
    THEN SubSeq(msgs, 1, maxMsgs)
    ELSE msgs

\* A count check that takes the max count -1 for a count like any other.
CountTrimWithoutUnbounded(msgs, maxMsgs) ==
    IF Len(msgs) > maxMsgs
    THEN SliceFrom(msgs, Len(msgs) - maxMsgs)
    ELSE msgs

\* The count check of UpdateMessages.
CountTrim(msgs, maxMsgs) ==
    IF Len(msgs) > maxMsgs /\ maxMsgs # Unbounded
    THEN SliceFrom(msgs, Len(msgs) - maxMsgs)
    ELSE msgs

\* ChannelState.UpdateMessages
UpdateMessages(msgs, maxMsgs, maxAge, t) ==
    LET counted == CountTrim(msgs, maxMsgs)
    IN  IF maxAge = 0 THEN counted
        ELSE AgeScan(counted, Len(counted) - 1, maxAge, t)

\* An add-or-update that never looks for the id and always appends.
AddOrPatchAlwaysAppends(msgs, msg) ==
    Append(msgs, NewMessageState(msg))

\* The body of MessageAddUpdate before the deferred UpdateMessages.
AddOrPatch(msgs, msg) ==
    LET i == MessageIndex(msgs, msg.ID)
    IN  IF i # 0
        THEN [msgs EXCEPT ![i] = MessageStateUpdate(@, msg)]
        ELSE Append(msgs, NewMessageState(msg))

\* ChannelState.MessageAddUpdate
MessageAddUpdate(msgs, msg, maxMessages, maxMessageAge, t) ==
    UpdateMessages(AddOrPatch(msgs, msg), maxMessages, maxMessageAge, t)

\* ChannelState.MessageRemove
MessageRemove(msgs, messageID, mark) ==
    LET i == MessageIndex(msgs, messageID)
    IN  IF i = 0 THEN msgs
        ELSE IF ~mark THEN SubSeq(msgs, 1, i - 1) \o SubSeq(msgs, i + 1, Len(msgs))
        ELSE [msgs EXCEPT ![i].Deleted = TRUE]


(***************************************************************************)
(* Maps and object stores.  A Go map is a function whose domain is its key *)
(* set; a pointer is an address into a store of objects, NilAddr for nil.  *)
(***************************************************************************)
EmptyMap == [k \in {} |-> NilAddr]
MapPut(f, k, v) == [x \in DOMAIN f \cup {k} |-> IF x = k THEN v ELSE f[x]]
MapDel(f, k) == [x \in DOMAIN f \ {k} |-> f[x]]
MapDelAll(f, ks) == [x \in DOMAIN f \ ks |-> f[x]]
MapGet(f, k) == IF k \in DOMAIN f THEN f[k] ELSE NilAddr
Range(f) == {f[x] : x \in DOMAIN f}

\* new(T): the lowest address not in use.
FreshAddr(objs) ==
    CHOOSE a \in 1..(Cardinality(DOMAIN objs) + 1) :
        a \notin DOMAIN objs /\ \A b \in 1..(a - 1) : b \in DOMAIN objs

ListOf(opt) == IF opt = None THEN <<>> ELSE opt[1]

(***************************************************************************)
(* ChannelState                                                            *)
(***************************************************************************)
IsPrivate(t) == t = "GroupDM" \/ t = "DM"

\* copyChannel: the copy never carries the overwrite list unless deep, and
\* a deep copy appends the source's own overwrite pointers to a new list.
copyChannel(in, deep) ==
    [in EXCEPT !.PermissionOverwrites =
        IF deep /\ Len(ListOf(in.PermissionOverwrites)) > 0
        THEN Some(ListOf(in.PermissionOverwrites))
        ELSE None]

NewChannelState(guild, owner, channel) ==
    [Owner |-> owner,
     Guild |-> guild,
     Channel |-> copyChannel(channel, TRUE),
     id |-> channel.ID,
     kind |-> channel.Type,
     recipients |-> IF IsPrivate(channel.Type) /\ Len(ListOf(channel.Recipients)) > 0
                    THEN Some(ListOf(channel.Recipients)) ELSE None,
     Messages |-> <<>>]

\* ChannelState.Update
ChannelUpdate(c, newChannel) ==
    LET withPows == IF newChannel.PermissionOverwrites = None
                    THEN [newChannel EXCEPT !.PermissionOverwrites =
                                                c.Channel.PermissionOverwrites]
                    ELSE newChannel
        group == newChannel.Recipients # None /\ c.kind = "GroupDM"
    IN  [c EXCEPT
            !.recipients = IF group THEN Some(ListOf(newChannel.Recipients)) ELSE @,
            !.Channel = IF group
                        THEN [withPows EXCEPT !.Recipients = c.Channel.Recipients]
                        ELSE withPows]

(***************************************************************************)
(* GuildState.  The operators below take and return the whole store s: the *)
(* root maps, the guild objects and the channel objects.                   *)
(***************************************************************************)

\* GuildState.ChannelAddUpdate on the guild object at g: the store after
\* it, and the address of the ChannelState it returns.
GuildChannelAddUpdate(s, g, newChannel) ==
    LET gs == s.guildObjs[g]
    IN  IF newChannel.ID \in DOMAIN gs.Channels
        THEN LET a == gs.Channels[newChannel.ID]
             IN  [store |-> [s EXCEPT !.chanObjs[a] = ChannelUpdate(@, newChannel)],
                  ret |-> a]
        ELSE LET a == FreshAddr(s.chanObjs)
             IN  [store |-> [s EXCEPT
                      !.chanObjs = MapPut(@, a, NewChannelState(g, "guild", newChannel)),
                      !.guildObjs[g].Channels = MapPut(@, newChannel.ID, a)],
                  ret |-> a]

RECURSIVE GuildChannelsAddUpdate(_, _, _, _)
GuildChannelsAddUpdate(s, g, list, i) ==
    IF i > Len(list) THEN s
    ELSE GuildChannelsAddUpdate(GuildChannelAddUpdate(s, g, list[i]).store, g, list, i + 1)

\* The fields of discordgo.Guild the guild object keeps as its snapshot.
GuildSnapshot(guild) ==
    [ID |-> guild.ID, Name |-> guild.Name, OwnerID |-> guild.OwnerID,
     Roles |-> guild.Roles, VoiceStates |-> guild.VoiceStates]

\* GuildState.MemberAddUpdate on the guild object at g.
MemberAddUpdate(s, g, newMember) ==
    LET id == newMember.User.ID
        members == s.guildObjs[g].Members
        patch(old) == [old EXCEPT
                          !.JoinedAt = IF newMember.JoinedAt # EmptyStr
                                       THEN newMember.JoinedAt ELSE @,
                          !.Roles = IF newMember.Roles # None
                                    THEN newMember.Roles ELSE @,
                          !.Nick = newMember.Nick,
                          !.User = newMember.User]
    IN  IF id \in DOMAIN members
        THEN IF members[id].Member = None
             THEN [s EXCEPT !.guildObjs[g].Members[id].Member = Some(newMember)]
             ELSE [s EXCEPT !.guildObjs[g].Members[id].Member = Some(patch(@[1]))]
        ELSE [s EXCEPT !.guildObjs[g].Members =
                 MapPut(@, id, [Member |-> Some(newMember), Presence |-> None])]

\* GuildState.MemberRemove
MemberRemove(s, g, id) ==
    [s EXCEPT !.guildObjs[g].Members = MapDel(@, id)]

\* copyPresence: the copy has the fields of the presence, its own Game and
\* User, and its own role list when the presence has one.
copyPresence(in) ==
    [User |-> in.User, Status |-> in.Status, Game |-> in.Game,
     Roles |-> IF in.Roles # None THEN Some(ListOf(in.Roles)) ELSE None]

\* GuildState.PresenceAddUpdate, up to the scheduling of the timer.
PresenceAddUpdate(s, g, newPresence) ==
    LET id == newPresence.User.ID
        members == s.guildObjs[g].Members
        patch(old) == [old EXCEPT
                          !.Game = newPresence.Game,
                          !.Status = IF newPresence.Status # EmptyStr
                                     THEN newPresence.Status ELSE @]
    IN  IF id \in DOMAIN members
        THEN IF members[id].Presence = None
             THEN [s EXCEPT !.guildObjs[g].Members[id].Presence =
                      Some(copyPresence(newPresence))]
             ELSE [s EXCEPT !.guildObjs[g].Members[id].Presence = Some(patch(@[1]))]
        ELSE [s EXCEPT !.guildObjs[g].Members =
                 MapPut(@, id, [Member |-> None,
                                Presence |-> Some(copyPresence(newPresence))])]

\* Whether PresenceAddUpdate ends by starting the eviction timer.  The
\* guild's removeOfflineMembers is the State's setting at NewGuildState.
StartsEvictionTimer(newPresence, removeOfflineMembers) ==
    newPresence.Status = "offline" /\ removeOfflineMembers

\* The callback without the removal of a member that has a presence.
EvictOnlyWithoutPresence(s, g, id) ==
    LET members == s.guildObjs[g].Members
    IN  IF id \in DOMAIN members /\ members[id].Presence = None
        THEN MemberRemove(s, g, id)
        ELSE s

\* The callback time.AfterFunc runs for the member id of the guild object
\* at g: the member goes when it has no presence or is offline.
EvictIfOffline(s, g, id) ==
    LET members == s.guildObjs[g].Members
    IN  IF id \in DOMAIN members
           /\ (members[id].Presence = None \/ members[id].Presence[1].Status = "offline")
        THEN MemberRemove(s, g, id)
        ELSE s

RECURSIVE GuildMembersAddUpdate(_, _, _, _)
GuildMembersAddUpdate(s, g, list, i) ==
    IF i > Len(list) THEN s
    ELSE GuildMembersAddUpdate(MemberAddUpdate(s, g, list[i]), g, list, i + 1)

RECURSIVE GuildPresencesAddUpdate(_, _, _, _)
GuildPresencesAddUpdate(s, g, list, i) ==
    IF i > Len(list) THEN s
    ELSE GuildPresencesAddUpdate(PresenceAddUpdate(s, g, list[i]), g, list, i + 1)

\* NewGuildState: the store with the new guild object at address g.
NewGuildState(s, g, guild) ==
    LET empty == [id |-> guild.ID,
                  Guild |-> GuildSnapshot(guild),
                  Members |-> EmptyMap,
                  Channels |-> EmptyMap]
        withChannels == GuildChannelsAddUpdate(
                            [s EXCEPT !.guildObjs = MapPut(@, g, empty)],
                            g, ListOf(guild.Channels), 1)
        withMembers == GuildMembersAddUpdate(withChannels, g, guild.Members, 1)
    IN  GuildPresencesAddUpdate(withMembers, g, guild.Presences, 1)

\* A snapshot that takes the voice states of the new guild even when it
\* has none.
FilledGuildButVoiceStates(old, newGuild) ==
    [newGuild EXCEPT !.Roles = IF @ = None THEN old.Roles ELSE @]

\* The snapshot GuildState.GuildUpdate stores: the role list and the voice
\* states of the old one where the new guild has none.
FilledGuild(old, newGuild) ==
    [newGuild EXCEPT
        !.Roles = IF @ = None THEN old.Roles ELSE @,
        !.VoiceStates = IF @ = None THEN old.VoiceStates ELSE @]

\* GuildState.GuildUpdate
GuildStateGuildUpdate(s, g, newGuild) ==
    LET replaced == [s EXCEPT !.guildObjs[g].Guild =
                        GuildSnapshot(FilledGuild(@, newGuild))]
        added == GuildChannelsAddUpdate(replaced, g, ListOf(newGuild.Channels), 1)
        listed == {ListOf(newGuild.Channels)[i].ID :
                      i \in 1..Len(ListOf(newGuild.Channels))}
        gone == {k \in DOMAIN added.guildObjs[g].Channels :
                    added.chanObjs[added.guildObjs[g].Channels[k]].id \notin listed}
    IN  IF newGuild.Channels # None
        THEN [added EXCEPT !.guildObjs[g].Channels = MapDelAll(@, gone)]
        ELSE added

\* GuildState.ChannelRemove
GuildChannelRemove(s, g, id) ==
    [s EXCEPT !.guildObjs[g].Channels = MapDel(@, id)]

\* The index of the first element of list that satisfies Test, 0 when none.
FirstIndex(list, Test(_)) ==
    IF \E i \in 1..Len(list) : Test(list[i])
    THEN CHOOSE i \in 1..Len(list) :
             Test(list[i]) /\ \A j \in 1..(i - 1) : ~Test(list[j])
    ELSE 0

\* append(list[:i], list[i+1:]...), counting from 1.
WithoutIndex(list, i) ==
    [k \in 1..(Len(list) - 1) |-> IF k < i THEN list[k] ELSE list[k + 1]]

\* RoleAddUpdate moving an updated role to the end of the list.
RoleAddUpdateMovesToEnd(s, g, newRole) ==
    LET roles == ListOf(s.guildObjs[g].Guild.Roles)
        i == FirstIndex(roles, LAMBDA r : r.ID = newRole.ID)
    IN  [s EXCEPT !.guildObjs[g].Guild.Roles =
            IF i # 0 THEN Some(Append(WithoutIndex(roles, i), newRole))
            ELSE Some(Append(roles, newRole))]

\* GuildState.RoleAddUpdate
RoleAddUpdate(s, g, newRole) ==
    LET roles == ListOf(s.guildObjs[g].Guild.Roles)
        i == FirstIndex(roles, LAMBDA r : r.ID = newRole.ID)
    IN  [s EXCEPT !.guildObjs[g].Guild.Roles =
            IF i # 0 THEN Some([roles EXCEPT ![i] = newRole])
            ELSE Some(Append(roles, newRole))]

\* GuildState.RoleRemove
RoleRemove(s, g, id) ==
    LET roles == ListOf(s.guildObjs[g].Guild.Roles)
        i == FirstIndex(roles, LAMBDA r : r.ID = id)
    IN  IF i = 0 THEN s
        ELSE [s EXCEPT !.guildObjs[g].Guild.Roles = Some(WithoutIndex(roles, i))]

\* GuildState.VoiceStateUpdate
VoiceStateUpdate(s, g, update) ==
    LET states == ListOf(s.guildObjs[g].Guild.VoiceStates)
        i == FirstIndex(states, LAMBDA v : v.UserID = update.UserID)
    IN  [s EXCEPT !.guildObjs[g].Guild.VoiceStates =
            IF update.ChannelID = EmptyStr /\ i # 0 THEN Some(WithoutIndex(states, i))
            ELSE IF i # 0 THEN Some([states EXCEPT ![i] = update])
            ELSE Some(Append(states, update))]


(***************************************************************************)
(* Permissions.  A permission bitmask is the set of its bits: | is union,  *)
(* & is intersection, &^ is set difference.  Of discordgo's bits the model *)
(* has the administrator bit, one bit of the guild level and one of the    *)
(* channel level; PermissionAllChannel is every bit of the channel level   *)
(* and PermissionAll is every bit.                                         *)
(***************************************************************************)
PermissionAdministrator == {"Administrator"}
PermissionKickMembers == {"KickMembers"}
PermissionSendMessages == {"SendMessages"}
PermissionAllChannel == PermissionSendMessages
PermissionAll ==
    PermissionAllChannel \cup PermissionKickMembers \cup PermissionAdministrator

\* p &^ overwrite.Deny, then | overwrite.Allow
ApplyOverwrite(p, overwrite) == (p \ overwrite.Deny) \cup overwrite.Allow

\* The owner test of MemberPermissions, and a test that also wants the
\* owner to have a member entry.
OwnerNeedsMemberEntry(gs, memberID) ==
    memberID = gs.Guild.OwnerID /\ memberID \in DOMAIN gs.Members

IsOwner(gs, memberID) == memberID = gs.Guild.OwnerID

\* The two loops over g.Guild.Roles: the bits of the first role whose id
\* is the guild's, and the bits of every role whose id the member holds.
RolePermissions(guild, memberRoles) ==
    LET roles == ListOf(guild.Roles)
        everyone == FirstIndex(roles, LAMBDA r : r.ID = guild.ID)
        held == {i \in 1..Len(roles) :
                    \E k \in 1..Len(memberRoles) : roles[i].ID = memberRoles[k]}
    IN  (IF everyone = 0 THEN {} ELSE roles[everyone].Permissions)
            \cup UNION {roles[i].Permissions : i \in held}

\* What an administrator gets, and the same without the guild level.
AdministratorGetsChannelLevel(p) == p \cup PermissionAllChannel

AdministratorGetsAll(p) == p \cup PermissionAll

\* The first overwrite whose id is the guild's is applied.
ApplyEveryoneOverwrite(p, overwrites, guildID) ==
    LET i == FirstIndex(overwrites, LAMBDA o : o.ID = guildID)
    IN  IF i = 0 THEN p ELSE ApplyOverwrite(p, overwrites[i])

\* The overwrites of the roles the member holds.
RoleOverwrites(overwrites, memberRoles) ==
    {i \in 1..Len(overwrites) :
        \E k \in 1..Len(memberRoles) :
            overwrites[i].Type = "role" /\ memberRoles[k] = overwrites[i].ID}

\* The role overwrites applied one after the other, in the list's order.
RECURSIVE ApplyRoleOverwritesInTurn(_, _, _)
ApplyRoleOverwritesInTurn(p, overwrites, memberRoles) ==
    IF overwrites = <<>> THEN p
    ELSE ApplyRoleOverwritesInTurn(
             IF 1 \in RoleOverwrites(overwrites, memberRoles)
             THEN ApplyOverwrite(p, overwrites[1]) ELSE p,
             Tail(overwrites), memberRoles)

\* The role pass: the denies of every role overwrite are taken away, then
\* the allows of every role overwrite are given.
ApplyRoleOverwrites(p, overwrites, memberRoles) ==
    LET matching == RoleOverwrites(overwrites, memberRoles)
        denies == UNION {overwrites[i].Deny : i \in matching}
        allows == UNION {overwrites[i].Allow : i \in matching}
    IN  (p \ denies) \cup allows

\* The member pass with the deny of the overwrite left out.
ApplyMemberOverwriteAllowOnly(p, overwrites, memberID) ==
    LET i == FirstIndex(overwrites, LAMBDA o : o.Type = "member" /\ o.ID = memberID)
    IN  IF i = 0 THEN p ELSE p \cup overwrites[i].Allow

\* The first overwrite of type member for the member is applied.
ApplyMemberOverwrite(p, overwrites, memberID) ==
    LET i == FirstIndex(overwrites, LAMBDA o : o.Type = "member" /\ o.ID = memberID)
    IN  IF i = 0 THEN p ELSE ApplyOverwrite(p, overwrites[i])

\* What MemberPermissions returns for a channel the guild does not have,
\* and the same without the error.
ChannelNotFoundUnreported(p) == [apermissions |-> p, err |-> "nil"]

ChannelNotFound(p) == [apermissions |-> p, err |-> "ErrChannelNotFound"]

\* GuildState.MemberPermissions on the guild object at g; heap holds the
\* overwrite objects the channels point to.  It assigns to no field.
MemberPermissions(s, heap, g, channelID, memberID) ==
    LET gs == s.guildObjs[g]
        mState == IF memberID \in DOMAIN gs.Members THEN Some(gs.Members[memberID])
                  ELSE None
        memberRoles == ListOf(mState[1].Member[1].Roles)
        base == RolePermissions(gs.Guild, memberRoles)
        cState == MapGet(gs.Channels, channelID)
        overwrites ==
            LET list == ListOf(s.chanObjs[cState].Channel.PermissionOverwrites)
            IN  [i \in 1..Len(list) |-> heap[list[i]]]
        everyone == ApplyEveryoneOverwrite(base, overwrites, gs.Guild.ID)
        roles == ApplyRoleOverwrites(everyone, overwrites, memberRoles)
        member == ApplyMemberOverwrite(roles, overwrites, memberID)
    IN  IF IsOwner(gs, memberID)
        THEN [apermissions |-> PermissionAll, err |-> "nil"]
        ELSE IF mState = None \/ mState[1].Member = None
        THEN [apermissions |-> {}, err |-> "ErrMemberNotFound"]
        ELSE IF PermissionAdministrator \subseteq base
        THEN [apermissions |-> AdministratorGetsAll(base), err |-> "nil"]
        ELSE IF cState = NilAddr
        THEN ChannelNotFound(base)
        ELSE [apermissions |->
                 IF PermissionAdministrator \subseteq member
                 THEN member \cup PermissionAllChannel ELSE member,
              err |-> "nil"]

(***************************************************************************)
(* State: the root registry.                                               *)
(***************************************************************************)
Builds == {"state.go", "part_002"}

\* NewState
NewState ==
    [Guilds |-> EmptyMap,
     channels |-> EmptyMap,
     PrivateChannels |-> EmptyMap,
     guildObjs |-> EmptyMap,
     chanObjs |-> EmptyMap,
     panicked |-> FALSE]

\* State.Guild and State.Channel
StateGuild(s, id) == MapGet(s.Guilds, id)
StateChannel(s, id) == MapGet(s.channels, id)

\* The second loop of GuildCreate without the assignment of the preserved
\* messages.
IndexGuildChannelsForgetsMessages(s, g, preserved) ==
    LET chans == s.guildObjs[g].Channels
    IN  [s EXCEPT
            !.channels = [k \in DOMAIN s.channels \cup
                                   {s.chanObjs[a].id : a \in Range(chans)} |->
                IF \E a \in Range(chans) : s.chanObjs[a].id = k
                THEN CHOOSE a \in Range(chans) : s.chanObjs[a].id = k
                ELSE s.channels[k]]]

\* The second loop of GuildCreate: every channel of the new guild object
\* gets the messages preserved under its id and is entered in the index.
IndexGuildChannels(s, g, preserved) ==
    LET chans == s.guildObjs[g].Channels
    IN  [s EXCEPT
            !.chanObjs = [a \in DOMAIN s.chanObjs |->
                IF a \in Range(chans) /\ s.chanObjs[a].id \in DOMAIN preserved
                THEN [s.chanObjs[a] EXCEPT !.Messages = preserved[s.chanObjs[a].id]]
                ELSE s.chanObjs[a]],
            !.channels = [k \in DOMAIN s.channels \cup
                                   {s.chanObjs[a].id : a \in Range(chans)} |->
                IF \E a \in Range(chans) : s.chanObjs[a].id = k
                THEN CHOOSE a \in Range(chans) : s.chanObjs[a].id = k
                ELSE s.channels[k]]]

\* State.GuildCreate
GuildCreate(s, guild) ==
    LET existing == StateGuild(s, guild.ID)
        old == IF existing = NilAddr THEN EmptyMap ELSE s.guildObjs[existing].Channels
        preservedMessages == [k \in {s.chanObjs[a].id : a \in Range(old)} |->
            s.chanObjs[CHOOSE a \in Range(old) : s.chanObjs[a].id = k].Messages]
        purged == [s EXCEPT !.channels = MapDelAll(@, DOMAIN preservedMessages)]
        g == FreshAddr(s.guildObjs)
        built == NewGuildState(purged, g, guild)
    IN  [IndexGuildChannels(built, g, preservedMessages) EXCEPT
            !.Guilds = MapPut(@, guild.ID, g)]

\* State.GuildUpdate without the redirection of an unknown guild to
\* GuildCreate.
GuildUpdateIgnoresUnknown(s, guild) ==
    IF StateGuild(s, guild.ID) = NilAddr
    THEN s
    ELSE GuildStateGuildUpdate(s, StateGuild(s, guild.ID), guild)

\* State.GuildUpdate
GuildUpdate(s, guild) ==
    IF StateGuild(s, guild.ID) = NilAddr
    THEN GuildCreate(s, guild)
    ELSE GuildStateGuildUpdate(s, StateGuild(s, guild.ID), guild)

\* State.GuildRemove.  The sweep reads cs.Guild of every index entry: an
\* entry holding a nil *ChannelState makes it panic.
GuildRemove(s, id) ==
    LET g == StateGuild(s, id)
        swept == {c \in DOMAIN s.channels :
                     s.channels[c] # NilAddr /\ s.chanObjs[s.channels[c]].Guild = g}
    IN  IF g = NilAddr THEN s
        ELSE IF NilAddr \in Range(s.channels) THEN [s EXCEPT !.panicked = TRUE]
        ELSE [s EXCEPT !.channels = MapDelAll(@, swept),
                       !.Guilds = MapDel(@, id)]

\* The private channels of a ready event, as each build enters them.
RECURSIVE ReadyPrivateChannels(_, _, _, _)
ReadyPrivateChannels(s, build, list, i) ==
    IF i > Len(list) THEN s
    ELSE LET a == FreshAddr(s.chanObjs)
             cs == IF build = "part_002"
                   THEN NewChannelState(NilAddr, "mutex", list[i])
                   ELSE [Owner |-> "nil", Guild |-> NilAddr, Channel |-> list[i],
                         id |-> EmptyStr, kind |-> "GuildText",
                         recipients |-> None, Messages |-> <<>>]
             put == [s EXCEPT
                        !.chanObjs = MapPut(@, a, cs),
                        !.channels = MapPut(@, list[i].ID, a),
                        !.PrivateChannels = IF build = "part_002"
                                            THEN MapPut(@, list[i].ID, a) ELSE @]
         IN  ReadyPrivateChannels(put, build, list, i + 1)

\* The guilds of a ready event: state.go creates each; part_002 creates the
\* unknown ones and updates the known ones.
RECURSIVE ReadyGuilds(_, _, _, _)
ReadyGuilds(s, build, list, i) ==
    IF i > Len(list) THEN s
    ELSE ReadyGuilds(IF build = "part_002" THEN GuildUpdate(s, list[i])
                     ELSE GuildCreate(s, list[i]),
                     build, list, i + 1)

\* State.HandleReady
HandleReady(s, build, r) ==
    ReadyGuilds(ReadyPrivateChannels(s, build, r.PrivateChannels, 1),
                build, r.Guilds, 1)

\* State.ChannelAddUpdate (part_002)
ChannelAddUpdate(s, newChannel) ==
    LET c == StateChannel(s, newChannel.ID)
        g == StateGuild(s, newChannel.GuildID)
        a == FreshAddr(s.chanObjs)
    IN  IF c # NilAddr
        THEN [s EXCEPT !.chanObjs[c] = ChannelUpdate(@, newChannel)]
        ELSE IF ~newChannel.IsPrivate
        THEN IF g # NilAddr
             THEN LET r == GuildChannelAddUpdate(s, g, newChannel)
                  IN  [r.store EXCEPT !.channels = MapPut(@, newChannel.ID, r.ret)]
             ELSE [s EXCEPT !.channels = MapPut(@, newChannel.ID, NilAddr)]
        ELSE [s EXCEPT
                 !.chanObjs = MapPut(@, a, NewChannelState(NilAddr, "mutex", newChannel)),
                 !.channels = MapPut(@, newChannel.ID, a),
                 !.PrivateChannels = MapPut(@, newChannel.ID, a)]

\* State.ChannelRemove (part_002)
ChannelRemove(s, evt) ==
    LET g == StateGuild(s, evt.GuildID)
    IN  IF evt.IsPrivate
        THEN [s EXCEPT !.channels = MapDel(@, evt.ID),
                       !.PrivateChannels = MapDel(@, evt.ID)]
        ELSE IF g # NilAddr
        THEN [GuildChannelRemove(s, g, evt.ID) EXCEPT !.channels = MapDel(@, evt.ID)]
        ELSE s

\* HandleEvent of state.go, cases ChannelCreate and ChannelUpdate
OldChannelCreate(s, channel) ==
    LET g == StateGuild(s, channel.GuildID)
    IN  IF g = NilAddr THEN s
        ELSE LET r == GuildChannelAddUpdate(s, g, channel)
             IN  [r.store EXCEPT !.channels = MapPut(@, channel.ID, r.ret)]

\* HandleEvent of state.go, case ChannelDelete
OldChannelDelete(s, channel) ==
    LET g == StateGuild(s, channel.GuildID)
    IN  IF g = NilAddr THEN s
        ELSE [GuildChannelAddUpdate(s, g, channel).store EXCEPT
                 !.channels = MapDel(@, channel.ID)]


\* Whether HandleEvent takes the channel at address a for a private one:
\* part_002 asks the ChannelState, state.go reads the snapshot's field.
ChannelIsPrivate(s, build, a) ==
    IF build = "part_002" THEN IsPrivate(s.chanObjs[a].kind)
    ELSE s.chanObjs[a].Channel.IsPrivate

\* The same without the test of ThrowAwayDMMessages.
MessageEventAppliesToDMs(s, build, throwAway, channelID) ==
    StateChannel(s, channelID) # NilAddr

\* Whether a message event for the channel id reaches a message window.
MessageEventApplies(s, build, throwAway, channelID) ==
    LET a == StateChannel(s, channelID)
    IN  a # NilAddr /\ ~(ChannelIsPrivate(s, build, a) /\ throwAway)

\* HandleEvent, cases MessageCreate and MessageUpdate
EventMessageAddUpdate(s, build, throwAway, msg, maxMessages, maxMessageAge, t) ==
    LET a == StateChannel(s, msg.ChannelID)
    IN  IF ~MessageEventApplies(s, build, throwAway, msg.ChannelID) THEN s
        ELSE [s EXCEPT !.chanObjs[a].Messages =
                 MessageAddUpdate(@, msg, maxMessages, maxMessageAge, t)]

\* The mark argument HandleEvent passes to MessageRemove.
DeleteMark(build, removeDeleted) ==
    IF build = "part_002" THEN removeDeleted ELSE ~removeDeleted

RECURSIVE MessagesRemove(_, _, _, _)
MessagesRemove(msgs, ids, mark, i) ==
    IF i > Len(ids) THEN msgs
    ELSE MessagesRemove(MessageRemove(msgs, ids[i], mark), ids, mark, i + 1)

\* HandleEvent, cases MessageDelete (one id) and MessageDeleteBulk
EventMessageDelete(s, build, throwAway, channelID, ids, removeDeleted) ==
    LET a == StateChannel(s, channelID)
    IN  IF ~MessageEventApplies(s, build, throwAway, channelID) THEN s
        ELSE [s EXCEPT !.chanObjs[a].Messages =
                 MessagesRemove(@, ids, DeleteMark(build, removeDeleted), 1)]

(***************************************************************************)
(* Garbage collection: an object no pointer leads to is gone.  A           *)
(* GuildState that State.Guilds and no running handler hold is led to only *)
(* by the Guild field of its former channels, which the code follows only  *)
(* to compare it with a registered guild (GuildRemove): every such guild   *)
(* is the one address DetachedGuild.                                       *)
(***************************************************************************)
DetachedGuild == -1

Collect(s, rootG, rootC) ==
    LET liveG == (Range(s.Guilds) \cup rootG) \ {NilAddr, DetachedGuild}
        liveC == (Range(s.channels) \cup Range(s.PrivateChannels) \cup rootC
                    \cup UNION {Range(s.guildObjs[g].Channels) : g \in liveG})
                 \ {NilAddr}
    IN  [s EXCEPT
            !.guildObjs = [g \in liveG |-> s.guildObjs[g]],
            !.chanObjs = [c \in liveC |->
                IF s.chanObjs[c].Guild \in liveG \cup {NilAddr}
                THEN s.chanObjs[c]
                ELSE [s.chanObjs[c] EXCEPT !.Guild = DetachedGuild]]]


(***************************************************************************)
(* Addresses are names only: a state is kept up to renaming of its         *)
(* addresses.  Normalise numbers the objects in the order in which the     *)
(* maps lead to them (by guild id and channel id, then the pointers the    *)
(* running handlers hold).                                                 *)
(***************************************************************************)
AllGuildIDs == <<"g1", "g2">>
AllChannelIDs == <<"c1", "c2", "p1">>

GuildAddrSeq(s, rootG) ==
    [i \in 1..Len(AllGuildIDs) |-> MapGet(s.Guilds, AllGuildIDs[i])] \o rootG

ChanAddrSeq(s, rootG, rootC) ==
    LET gs == GuildAddrSeq(s, rootG)
        nc == Len(AllChannelIDs)
    IN  [i \in 1..nc |-> MapGet(s.channels, AllChannelIDs[i])]
        \o [i \in 1..nc |-> MapGet(s.PrivateChannels, AllChannelIDs[i])]
        \o [k \in 1..(Len(gs) * nc) |->
               LET g == gs[((k - 1) \div nc) + 1]
               IN  IF g \in {NilAddr, DetachedGuild} THEN NilAddr
                   ELSE MapGet(s.guildObjs[g].Channels, AllChannelIDs[((k - 1) % nc) + 1])]
        \o rootC

\* The new address of every address of seq: its rank by first occurrence.
Renaming(seq) ==
    [a \in {seq[i] : i \in 1..Len(seq)} \ {NilAddr, DetachedGuild} |->
        LET first == CHOOSE i \in 1..Len(seq) :
                         seq[i] = a /\ \A j \in 1..(i - 1) : seq[j] # a
        IN  Cardinality({seq[j] : j \in 1..(first - 1)} \ {NilAddr, DetachedGuild}) + 1]

Renamed(r, a) == IF a \in DOMAIN r THEN r[a] ELSE a
Origin(r, n) == CHOOSE a \in DOMAIN r : r[a] = n

Normalise(s, rootG, rootC) ==
    LET rg == Renaming(GuildAddrSeq(s, rootG))
        rc == Renaming(ChanAddrSeq(s, rootG, rootC))
    IN  [store |->
            [Guilds |-> [k \in DOMAIN s.Guilds |-> Renamed(rg, s.Guilds[k])],
             channels |-> [k \in DOMAIN s.channels |-> Renamed(rc, s.channels[k])],
             PrivateChannels |-> [k \in DOMAIN s.PrivateChannels |->
                                     Renamed(rc, s.PrivateChannels[k])],
             guildObjs |-> [n \in Range(rg) |->
                 [s.guildObjs[Origin(rg, n)] EXCEPT
                     !.Channels = [k \in DOMAIN @ |-> Renamed(rc, @[k])]]],
             chanObjs |-> [n \in Range(rc) |->
                 [s.chanObjs[Origin(rc, n)] EXCEPT !.Guild = Renamed(rg, @)]],
             panicked |-> s.panicked],
         rootG |-> [i \in 1..Len(rootG) |-> Renamed(rg, rootG[i])],
         rootC |-> [i \in 1..Len(rootC) |-> Renamed(rc, rootC[i])]]


(***************************************************************************)
(* MemberState of memberstate.go and of part_000: one object with the      *)
(* fields of the membership and of the presence.  Of its fields the model  *)
(* keeps those a membership or presence update patches by the rule for    *)
(* nickname and status; the avatar, the discriminator and Bot are left out.*)
(***************************************************************************)
MemberStateVersions == {"memberstate.go", "part_000"}

\* time.Parse of a join time with its error dropped: the zero time for a
\* string that is not a time.
ParseJoinedAt(str) ==
    CASE str = "t1" -> 1
      [] str = "t2" -> 2
      [] OTHER -> ZeroTime

\* The zero value of PresenceStatus: the empty discordgo.Status in
\* memberstate.go, StatusNotSet in part_000.
StatusNotSet(version) ==
    IF version = "part_000" THEN "StatusNotSet" ELSE EmptyStr

\* A MemberState no update has reached.
ZeroMemberState(version) ==
    [MemberSet |-> FALSE, JoinedAt |-> ZeroTime, Nick |-> EmptyStr, Roles |-> None,
     PresenceSet |-> FALSE, PresenceStatus |-> StatusNotSet(version),
     PresenceGame |-> None, Username |-> EmptyStr]

\* MemberState.UpdateMember, the same in both versions.
UpdateMember(m, member) ==
    [m EXCEPT !.JoinedAt = IF member.JoinedAt # EmptyStr
                           THEN ParseJoinedAt(member.JoinedAt) ELSE @,
              !.Roles = IF member.Roles # None THEN member.Roles ELSE @,
              !.Nick = member.Nick,
              !.Username = member.User.Username,
              !.MemberSet = TRUE]

\* The switch of part_000's UpdatePresence: a status it has no case for
\* leaves the stored status as it is.
SwitchStatus(old, status) ==
    CASE status = "online" -> "StatusOnline"
      [] status = "idle" -> "StatusIdle"
      [] status = "dnd" -> "StatusDoNotDisturb"
      [] status = "invisible" -> "StatusInvisible"
      [] status = "offline" -> "StatusOffline"
      [] OTHER -> old

\* UpdatePresence taking the nickname of the presence whether the member was
\* set or not.
UpdatePresenceTakesNick(version, m, presence) ==
    [m EXCEPT !.PresenceSet = TRUE,
              !.PresenceStatus = IF version = "memberstate.go" THEN presence.Status
                                 ELSE IF presence.Status # EmptyStr
                                      THEN SwitchStatus(@, presence.Status)
                                      ELSE @,
              !.PresenceGame = presence.Game,
              !.Nick = presence.Nick,
              !.Username = IF presence.User.Username # EmptyStr
                           THEN presence.User.Username ELSE @]

\* MemberState.UpdatePresence.  memberstate.go assigns the status of the
\* presence whatever it is; part_000 goes through the switch when the
\* status is not empty.
UpdatePresence(version, m, presence) ==
    [m EXCEPT !.PresenceSet = TRUE,
              !.PresenceStatus = IF version = "memberstate.go" THEN presence.Status
                                 ELSE IF presence.Status # EmptyStr
                                      THEN SwitchStatus(@, presence.Status)
                                      ELSE @,
              !.PresenceGame = presence.Game,
              !.Nick = IF ~m.MemberSet THEN presence.Nick ELSE @,
              !.Username = IF presence.User.Username # EmptyStr
                           THEN presence.User.Username ELSE @]

(***************************************************************************)
(* StrSplit of commandsystem.  A string is its bytes, and the indexes are  *)
(* Go's: bytes counted from 0.  Of UTF-8 the model has three one-byte      *)
(* runes (a digit, the space, the newline) and the two bytes C2 A0 of the  *)
(* no-break space; C2 or A0 out of place decodes as a RuneError of one     *)
(* byte, as in Go.                                                         *)
(***************************************************************************)
Bytes == {"1", " ", "\n", "C2", "A0"}
EmptyString == <<>>

\* s[lo:hi] and s[lo:]
Slice(s, lo, hi) == SubSeq(s, lo + 1, hi)
SliceOff(s, lo) == SubSeq(s, lo + 1, Len(s))

\* utf8.DecodeRuneInString: the first rune of s and its width in bytes.
DecodeRuneInString(s) ==
    IF s = EmptyString THEN [rune |-> "RuneError", size |-> 0]
    ELSE IF s[1] = "C2"
         THEN IF Len(s) >= 2 /\ s[2] = "A0"
              THEN [rune |-> "NBSP", size |-> 2]
              ELSE [rune |-> "RuneError", size |-> 1]
    ELSE IF s[1] = "A0" THEN [rune |-> "RuneError", size |-> 1]
    ELSE [rune |-> s[1], size |-> 1]

\* The byte indexes at which the runes of s start, from index k on: what
\* "for k, r := range s" goes through.
RECURSIVE RangeFrom(_, _)
RangeFrom(s, k) ==
    IF k >= Len(s) THEN <<>>
    ELSE <<k>> \o RangeFrom(s, k + DecodeRuneInString(SliceOff(s, k)).size)

RuneStarts(s) == RangeFrom(s, 0)

\* utf8.RuneCountInString
RuneCountInString(s) == Len(RuneStarts(s))

\* unicode.In(r, unicode.White_Space)
WhiteSpace(r) == r \in {" ", "\n", "NBSP"}

\* RuneByIndex: the byte index of the rune at runePos, "panic" when s has
\* no such rune.
RuneByIndex(s, runePos) ==
    IF RuneCountInString(s) <= runePos \/ runePos < 0 THEN "panic"
    ELSE RuneStarts(s)[runePos + 1]

\* strings.LastIndex(s, "\n")
LastIndexNewline(s) ==
    LET at == {i \in 0..(Len(s) - 1) : s[i + 1] = "\n"}
    IN  IF at = {} THEN -1 ELSE CHOOSE i \in at : \A j \in at : j <= i

\* strings.LastIndexFunc(s, f), f being the test for white space: the
\* index of the last rune of s that is white space.
LastIndexWhiteSpace(s) ==
    LET starts == RuneStarts(s)
        at == {starts[n] : n \in {m \in 1..Len(starts) :
                   WhiteSpace(DecodeRuneInString(SliceOff(s, starts[m])).rune)}}
    IN  IF at = {} THEN -1 ELSE CHOOSE i \in at : \A j \in at : j <= i

\* A rest that keeps the white space the string was split at.
RestKeepsWhiteSpace(s, lastIndex, foundWhiteSpace) ==
    SliceOff(s, lastIndex)

\* The rest StrSplit returns: without the white space split at, if any.
RestOf(s, lastIndex, foundWhiteSpace) ==
    IF foundWhiteSpace
    THEN SliceOff(s, lastIndex + DecodeRuneInString(SliceOff(s, lastIndex)).size)
    ELSE SliceOff(s, lastIndex)

\* StrSplit
StrSplit(s, runeCount) ==
    IF RuneCountInString(s) > runeCount
    THEN LET beforeIndex == RuneByIndex(s, runeCount)
             firstPart == Slice(s, 0, beforeIndex)
             newline == LastIndexNewline(firstPart)
             space == LastIndexWhiteSpace(firstPart)
             lastIndex == IF newline # -1 THEN newline
                          ELSE IF space # -1 THEN space
                          ELSE beforeIndex
             foundWhiteSpace == newline # -1 \/ space # -1
         IN  [split |-> Slice(s, 0, lastIndex),
              rest |-> RestOf(s, lastIndex, foundWhiteSpace)]
    ELSE [split |-> s, rest |-> EmptyString]

(***************************************************************************)
(* The program state.                                                      *)
(***************************************************************************)
VARIABLES
    build,                  \* which of the two versions of the dispatcher runs
    MaxChannelMessages,     \* State.MaxChannelMessages
    MaxMessageAge,          \* State.MaxMessageAge
    TrackChannels,          \* State.TrackChannels
    ThrowAwayDMMessages,    \* State.ThrowAwayDMMessages
    RemoveDeletedMessages,  \* State.RemoveDeletedMessages
    TrackMembers,           \* State.TrackMembers
    TrackRoles,             \* State.TrackRoles
    TrackVoice,             \* State.TrackVoice
    TrackPresences,         \* State.TrackPresences
    RemoveOfflineMembers,   \* State.RemoveOfflineMembers
    Guilds,                 \* State.Guilds: guild id -> address of a GuildState
    channels,               \* State.channels: channel id -> address of a ChannelState
    PrivateChannels,        \* State.PrivateChannels
    guildObjs,              \* the GuildState objects
    chanObjs,               \* the ChannelState objects
    panicked,               \* a handler dereferenced nil
    now,                    \* time.Now()
    last,                   \* the event HandleEvent handled last
    arrivals,               \* the message ids delivered so far, in order
    pows,                   \* the discordgo.PermissionOverwrite objects
    held,                   \* the copy of a channel a caller holds
    threads,                \* the handlers that run concurrently
    timers,                 \* the callbacks time.AfterFunc is to run
    returned,               \* what the last call of MemberPermissions returned
    memberVersion,          \* which version of MemberState the guild keeps
    memberState,            \* a MemberState of memberstate.go or of part_000
    sending,                \* the call of SplitSendMessage under way
    standing                \* where each goroutine of SpecNesting stands

config == <<build, MaxChannelMessages, MaxMessageAge, TrackChannels,
            ThrowAwayDMMessages, RemoveDeletedMessages, TrackMembers, TrackRoles,
            TrackVoice, TrackPresences, RemoveOfflineMembers>>
store == <<Guilds, channels, PrivateChannels, guildObjs, chanObjs, panicked>>
flat == <<memberVersion, memberState>>
direct == <<flat, sending, standing>>
calls == <<timers, returned, direct>>
aux == <<arrivals, pows, held, threads, calls>>
vars == <<config, store, now, last, aux>>

\* The guild keeps the members of guildstate.go, and no MemberState of the
\* other versions is in use.
FlatIdle ==
    /\ memberVersion = "guildstate.go"
    /\ memberState = ZeroMemberState("guildstate.go")

\* Nothing is called but through the State.
DirectIdle == FlatIdle /\ sending = None /\ standing = <<>>

\* No message id recorded, no overwrite, no copy held, no handler running,
\* no timer started, no permissions asked for.
AuxIdle ==
    /\ arrivals = <<>> /\ pows = EmptyMap /\ held = None /\ threads = <<>>
    /\ timers = <<>> /\ returned = None /\ DirectIdle

\* The tracking settings of NewState; NewState leaves RemoveOfflineMembers
\* unset.
TrackAll ==
    /\ TrackMembers = TRUE /\ TrackRoles = TRUE /\ TrackVoice = TRUE
    /\ TrackPresences = TRUE /\ RemoveOfflineMembers = FALSE

Store ==
    [Guilds |-> Guilds, channels |-> channels, PrivateChannels |-> PrivateChannels,
     guildObjs |-> guildObjs, chanObjs |-> chanObjs, panicked |-> panicked]

SetStore(s) ==
    LET c == Normalise(Collect(s, {}, {}), <<>>, <<>>).store
    IN  /\ Guilds' = c.Guilds
        /\ channels' = c.channels
        /\ PrivateChannels' = c.PrivateChannels
        /\ guildObjs' = c.guildObjs
        /\ chanObjs' = c.chanObjs
        /\ panicked' = c.panicked

StoreIs(s) ==
    /\ Guilds = s.Guilds
    /\ channels = s.channels
    /\ PrivateChannels = s.PrivateChannels
    /\ guildObjs = s.guildObjs
    /\ chanObjs = s.chanObjs
    /\ panicked = s.panicked

\* ChannelState.Messages of the channel the index holds under the id.
Window(s, channelID) ==
    IF StateChannel(s, channelID) = NilAddr THEN <<>>
    ELSE s.chanObjs[StateChannel(s, channelID)].Messages

IDsOf(msgs) == [i \in 1..Len(msgs) |-> msgs[i].Message.ID]

\* What is kept of the event handled last: its kind, the channel and the
\* message ids it names, its payload, whether every message it names was
\* in the window it went to, how long that window was, and, for a guild or
\* channel event, whether the event handled before it was the same event.
NoEvent == [kind |-> "none", channel |-> EmptyStr, ids |-> <<>>, payload |-> None,
            hit |-> FALSE, lenBefore |-> 0, repeat |-> FALSE, replaced |-> {}]

MessageEvent(kind, channelID, ids, payload) ==
    [kind |-> kind, channel |-> channelID, ids |-> ids, payload |-> Some(payload),
     hit |-> /\ MessageEventApplies(Store, build, ThrowAwayDMMessages, channelID)
             /\ \A i \in 1..Len(ids) : MessageIndex(Window(Store, channelID), ids[i]) # 0,
     lenBefore |-> Len(Window(Store, channelID)),
     repeat |-> FALSE,
     replaced |-> {}]

(***************************************************************************)
(* Payloads of the gateway events.                                         *)
(***************************************************************************)
Message(id, channelID, content, created, edited) ==
    [ID |-> id, ChannelID |-> channelID, Content |-> content,
     Timestamp |-> created, EditedTimestamp |-> edited,
     Mentions |-> None, Embeds |-> None, Attachments |-> None, Author |-> None]

GuildChannel(id, guildID, name) ==
    [ID |-> id, GuildID |-> guildID, Name |-> name, Type |-> "GuildText",
     IsPrivate |-> FALSE, PermissionOverwrites |-> None, Recipients |-> None]

DMChannel(id, name) ==
    [ID |-> id, GuildID |-> EmptyStr, Name |-> name, Type |-> "DM",
     IsPrivate |-> TRUE, PermissionOverwrites |-> None, Recipients |-> Some(<<"u1">>)]

\* A guild that has channels only: no owner, no role list, no voice states,
\* no members.
GuildPayload(id, name, chans) ==
    [ID |-> id, Name |-> name, Channels |-> chans, OwnerID |-> EmptyStr,
     Roles |-> None, VoiceStates |-> None, Members |-> <<>>, Presences |-> <<>>]

Member(userID, roles) ==
    [User |-> [ID |-> userID], Nick |-> EmptyStr, JoinedAt |-> EmptyStr, Roles |-> roles]

Presence(userID, status) ==
    [User |-> [ID |-> userID], Status |-> status, Game |-> None, Roles |-> None]

Role(id, permissions) == [ID |-> id, Permissions |-> permissions]

VoiceState(guildID, userID, channelID) ==
    [GuildID |-> guildID, UserID |-> userID, ChannelID |-> channelID]

(***************************************************************************)
(* HandleEvent: one action per event kind.                                 *)
(***************************************************************************)
HandleMessageCreate(msg) ==
    /\ ~panicked
    /\ SetStore(EventMessageAddUpdate(Store, build, ThrowAwayDMMessages, msg,
                                      MaxChannelMessages, MaxMessageAge, now))
    /\ last' = MessageEvent("MessageCreate", msg.ChannelID, <<msg.ID>>, msg)
    /\ UNCHANGED <<config, now>>

HandleMessageUpdate(msg) ==
    /\ ~panicked
    /\ SetStore(EventMessageAddUpdate(Store, build, ThrowAwayDMMessages, msg,
                                      MaxChannelMessages, MaxMessageAge, now))
    /\ last' = MessageEvent("MessageUpdate", msg.ChannelID, <<msg.ID>>, msg)
    /\ UNCHANGED <<config, now>>

HandleMessageDelete(channelID, id) ==
    /\ ~panicked
    /\ SetStore(EventMessageDelete(Store, build, ThrowAwayDMMessages, channelID,
                                   <<id>>, RemoveDeletedMessages))
    /\ last' = MessageEvent("MessageDelete", channelID, <<id>>, id)
    /\ UNCHANGED <<config, now>>

\* MessageDeleteBulk is a case of part_002's HandleEvent only.
HandleMessageDeleteBulk(channelID, ids) ==
    /\ ~panicked
    /\ build = "part_002"
    /\ SetStore(EventMessageDelete(Store, build, ThrowAwayDMMessages, channelID,
                                   ids, RemoveDeletedMessages))
    /\ last' = MessageEvent("MessageDeleteBulk", channelID, ids, ids)
    /\ UNCHANGED <<config, now>>

\* What last keeps of a guild, ready or channel event; hit tells whether
\* the index held the channel the event names.
Event(kind, channelID, payload) ==
    [kind |-> kind, channel |-> channelID, ids |-> <<>>, payload |-> Some(payload),
     hit |-> StateChannel(Store, channelID) # NilAddr,
     lenBefore |-> Len(Window(Store, channelID)),
     repeat |-> last.kind = kind /\ last.payload = Some(payload),
     replaced |-> {}]

\* For a guild create, hit tells whether the guild was known, and replaced
\* is the set of channel ids of the guild state the new one replaces.
HandleGuildCreate(guild) ==
    /\ ~panicked
    /\ SetStore(GuildCreate(Store, guild))
    /\ last' = [Event("GuildCreate", EmptyStr, guild) EXCEPT
                   !.hit = StateGuild(Store, guild.ID) # NilAddr,
                   !.replaced = IF StateGuild(Store, guild.ID) = NilAddr THEN {}
                                ELSE DOMAIN guildObjs[StateGuild(Store, guild.ID)].Channels]
    /\ UNCHANGED <<config, now>>

\* For a guild update, hit tells whether the guild was known.
HandleGuildUpdate(guild) ==
    /\ ~panicked
    /\ SetStore(GuildUpdate(Store, guild))
    /\ last' = [Event("GuildUpdate", EmptyStr, guild) EXCEPT
                   !.hit = StateGuild(Store, guild.ID) # NilAddr]
    /\ UNCHANGED <<config, now>>

HandleGuildDelete(id) ==
    /\ ~panicked
    /\ SetStore(GuildRemove(Store, id))
    /\ last' = Event("GuildDelete", EmptyStr, id)
    /\ UNCHANGED <<config, now>>

HandleReadyEvent(r) ==
    /\ ~panicked
    /\ SetStore(HandleReady(Store, build, r))
    /\ last' = Event("Ready", EmptyStr, r)
    /\ UNCHANGED <<config, now>>

HandleChannelCreate(channel) ==
    /\ ~panicked
    /\ SetStore(IF ~TrackChannels THEN Store
                ELSE IF build = "part_002" THEN ChannelAddUpdate(Store, channel)
                ELSE OldChannelCreate(Store, channel))
    /\ last' = Event("ChannelCreate", channel.ID, channel)
    /\ UNCHANGED <<config, now>>

HandleChannelUpdate(channel) ==
    /\ ~panicked
    /\ SetStore(IF ~TrackChannels THEN Store
                ELSE IF build = "part_002" THEN ChannelAddUpdate(Store, channel)
                ELSE OldChannelCreate(Store, channel))
    /\ last' = Event("ChannelUpdate", channel.ID, channel)
    /\ UNCHANGED <<config, now>>

HandleChannelDelete(channel) ==
    /\ ~panicked
    /\ SetStore(IF ~TrackChannels THEN Store
                ELSE IF build = "part_002" THEN ChannelRemove(Store, channel)
                ELSE OldChannelDelete(Store, channel))
    /\ last' = Event("ChannelDelete", channel.ID, channel)
    /\ UNCHANGED <<config, now>>

\* HandleEvent, cases GuildMemberAdd and GuildMemberUpdate.  part_002 calls
\* GuildState.MemberAdd for the first, a method of the guild object alone.
HandleGuildMemberAddUpdate(kind, guildID, member) ==
    LET g == StateGuild(Store, guildID)
    IN  /\ ~panicked
        /\ SetStore(IF ~TrackMembers \/ g = NilAddr THEN Store
                    ELSE MemberAddUpdate(Store, g, member))
        /\ last' = Event(kind, EmptyStr, <<guildID, member>>)
        /\ UNCHANGED <<config, now>>

HandleGuildMemberRemove(guildID, userID) ==
    LET g == StateGuild(Store, guildID)
    IN  /\ ~panicked
        /\ SetStore(IF ~TrackMembers \/ g = NilAddr THEN Store
                    ELSE MemberRemove(Store, g, userID))
        /\ last' = Event("GuildMemberRemove", EmptyStr, <<guildID, userID>>)
        /\ UNCHANGED <<config, now>>

\* HandleEvent, cases GuildRoleCreate and GuildRoleUpdate
HandleGuildRoleAddUpdate(kind, guildID, role) ==
    LET g == StateGuild(Store, guildID)
    IN  /\ ~panicked
        /\ SetStore(IF ~TrackRoles \/ g = NilAddr THEN Store
                    ELSE RoleAddUpdate(Store, g, role))
        /\ last' = Event(kind, EmptyStr, <<guildID, role>>)
        /\ UNCHANGED <<config, now>>

HandleGuildRoleDelete(guildID, roleID) ==
    LET g == StateGuild(Store, guildID)
    IN  /\ ~panicked
        /\ SetStore(IF ~TrackRoles \/ g = NilAddr THEN Store
                    ELSE RoleRemove(Store, g, roleID))
        /\ last' = Event("GuildRoleDelete", EmptyStr, <<guildID, roleID>>)
        /\ UNCHANGED <<config, now>>

HandleVoiceStateUpdate(update) ==
    LET g == StateGuild(Store, update.GuildID)
    IN  /\ ~panicked
        /\ SetStore(IF ~TrackVoice \/ g = NilAddr THEN Store
                    ELSE VoiceStateUpdate(Store, g, update))
        /\ last' = Event("VoiceStateUpdate", EmptyStr, update)
        /\ UNCHANGED <<config, now>>

\* A timer time.AfterFunc started: the guild object and the member id its
\* callback holds and the time it is due, and what has happened since it
\* was started: whether a presence update for the member was handled, and
\* whether one brought the member a status other than offline.
GracePeriod == 1

NewTimer(g, id, t) ==
    [guild |-> g, id |-> id, due |-> t + GracePeriod, updated |-> FALSE, flipped |-> FALSE]

Noted(timer, presence) ==
    IF presence.User.ID # timer.id THEN timer
    ELSE [timer EXCEPT !.updated = TRUE,
                       !.flipped = @ \/ presence.Status \notin {EmptyStr, "offline"}]

\* HandleEvent, case PresenceUpdate, with the timer PresenceAddUpdate starts.
HandlePresenceUpdate(guildID, presence) ==
    LET g == StateGuild(Store, guildID)
        applies == TrackPresences /\ g # NilAddr
        noted == [i \in 1..Len(timers) |->
                     IF applies /\ timers[i].guild = g
                     THEN Noted(timers[i], presence) ELSE timers[i]]
    IN  /\ ~panicked
        /\ SetStore(IF applies THEN PresenceAddUpdate(Store, g, presence) ELSE Store)
        /\ timers' = IF applies /\ StartsEvictionTimer(presence, RemoveOfflineMembers)
                     THEN Append(noted, NewTimer(g, presence.User.ID, now))
                     ELSE noted
        /\ last' = Event("PresenceUpdate", EmptyStr, <<guildID, presence>>)
        /\ UNCHANGED <<config, now>>

\* The callback of the i-th timer runs, the timer being due.  On a guild
\* object the State no longer holds it changes nothing the cache leads to.
FireTimer(i) ==
    /\ ~panicked
    /\ i \in 1..Len(timers)
    /\ timers[i].due <= now
    /\ SetStore(IF timers[i].guild = DetachedGuild THEN Store
                ELSE EvictIfOffline(Store, timers[i].guild, timers[i].id))
    /\ timers' = WithoutIndex(timers, i)
    /\ last' = [Event("EvictionTimer", EmptyStr, timers[i]) EXCEPT
                   !.hit = /\ timers[i].guild # DetachedGuild
                           /\ timers[i].id \in DOMAIN guildObjs[timers[i].guild].Members]
    /\ UNCHANGED <<config, now>>

\* Time passes.
Tick ==
    /\ now < MaxTime
    /\ now' = now + 1
    /\ last' = NoEvent
    /\ UNCHANGED <<config, store>>

(***************************************************************************)
(* SpecWindow: one guild channel receiving message creates and updates,    *)
(* under every limit on count and age (TestMessageCreate's set-up).        *)
(***************************************************************************)
MaxWindowCount == 1
MaxAge == 1
NumWindowIDs == 2
WindowIDs == 1..NumWindowIDs

TestGuild == GuildPayload("g1", "n", Some(<<GuildChannel("c1", "g1", "a")>>))

CreatedNow == {EmptyTimestamp, TimestampOf(now)}

InitWindow ==
    /\ build = "part_002"
    /\ MaxChannelMessages \in {Unbounded} \cup 0..MaxWindowCount
    /\ MaxMessageAge \in 0..MaxAge
    /\ TrackChannels = TRUE
    /\ ThrowAwayDMMessages = TRUE
    /\ RemoveDeletedMessages = TRUE
    /\ StoreIs(GuildCreate(NewState, TestGuild))
    /\ now = 1
    /\ last = NoEvent
    /\ AuxIdle
    /\ TrackAll

NextWindow ==
    \/ \E id \in WindowIDs, ts \in CreatedNow :
           HandleMessageCreate(Message(id, "c1", "a", ts, EmptyTimestamp))
           /\ UNCHANGED aux
    \/ \E id \in WindowIDs :
           HandleMessageUpdate(Message(id, "c1", "a", EmptyTimestamp, EmptyTimestamp))
           /\ UNCHANGED aux
    \/ Tick /\ UNCHANGED aux

SpecWindow == InitWindow /\ [][NextWindow]_vars


\* The window of the test channel, and the event kinds that add or update.
TestWindow == Window(Store, "c1")
AddUpdateKinds == {"MessageCreate", "MessageUpdate"}
NoDuplicateIDs(msgs) ==
    \A i, j \in 1..Len(msgs) : msgs[i].Message.ID = msgs[j].Message.ID => i = j
IsSuffix(a, b) == Len(a) <= Len(b) /\ a = SubSeq(b, Len(b) - Len(a) + 1, Len(b))

\* C1: with a max count N >= 0 the window of a channel never holds more
\* than N entries, whatever messages were added or updated.
C1_WindowAtMostMaxCount ==
    MaxChannelMessages >= 0 =>
        \A a \in DOMAIN chanObjs : Len(chanObjs[a].Messages) <= MaxChannelMessages

\* A new message arrived at a full window, and the window is full again.
C1_Witness ==
    /\ MaxChannelMessages >= 1
    /\ last.kind = "MessageCreate" /\ ~last.hit
    /\ last.lenBefore = MaxChannelMessages
    /\ Len(TestWindow) = MaxChannelMessages

\* C3 as claimed: with a max age set, right after an add-or-update no entry
\* of the window has a known created time older than now - maxAge.
C3_NoEntryOlderThanMaxAge ==
    (last.kind \in AddUpdateKinds /\ MaxMessageAge > 0) =>
        \A i \in 1..Len(TestWindow) :
            \/ TestWindow[i].ParsedCreated = ZeroTime
            \/ now - TestWindow[i].ParsedCreated <= MaxMessageAge

\* C4 as claimed: ids stay unique, and an add-or-update for an id already
\* in the window changes neither the length nor the order of the window.
C4_UpdateKeepsWindow ==
    [][/\ NoDuplicateIDs(TestWindow')
       /\ (last'.kind \in AddUpdateKinds /\ last'.hit)
              => IDsOf(TestWindow') = IDsOf(TestWindow)]_vars

\* C4 amended: ids stay unique, and an add-or-update for an id already in
\* the window leaves a suffix of the ids it held, in the same order: all of
\* them when no max age is set.
C4_UpdateKeepsSuffix ==
    [][/\ NoDuplicateIDs(TestWindow')
       /\ (last'.kind \in AddUpdateKinds /\ last'.hit)
              => /\ IsSuffix(IDsOf(TestWindow'), IDsOf(TestWindow))
                 /\ MaxMessageAge = 0 => IDsOf(TestWindow') = IDsOf(TestWindow)]_vars

\* An update reached a message held in a window of two or more.
C4_Witness ==
    /\ last.kind = "MessageUpdate" /\ last.hit
    /\ last.lenBefore >= 2
    /\ Len(TestWindow) >= 2


(***************************************************************************)
(* SpecRecency: the window of one guild channel with no max age, under     *)
(* creates and updates whose ids are recorded in arrivals in the order     *)
(* they were handled.                                                      *)
(***************************************************************************)
MaxCount == 2

InitRecency ==
    /\ build = "part_002"
    /\ MaxChannelMessages \in {Unbounded} \cup 0..MaxCount
    /\ MaxMessageAge = 0
    /\ TrackChannels = TRUE /\ ThrowAwayDMMessages = TRUE /\ RemoveDeletedMessages = TRUE
    /\ StoreIs(GuildCreate(NewState, TestGuild))
    /\ now = 1
    /\ last = NoEvent
    /\ AuxIdle
    /\ TrackAll

ArriveCreate(id) ==
    /\ Len(arrivals) < MaxArrivals
    /\ HandleMessageCreate(Message(id, "c1", "a", TimestampOf(now), EmptyTimestamp))
    /\ arrivals' = Append(arrivals, id)
    /\ UNCHANGED <<pows, held, threads, calls>>

ArriveUpdate(id) ==
    /\ Len(arrivals) < MaxArrivals
    /\ HandleMessageUpdate(Message(id, "c1", "b", EmptyTimestamp, TimestampOf(now)))
    /\ arrivals' = Append(arrivals, id)
    /\ UNCHANGED <<pows, held, threads, calls>>

NextRecency ==
    \/ \E id \in MessageIDs : ArriveCreate(id)
    \/ \E id \in MessageIDs : ArriveUpdate(id)

SpecRecency == InitRecency /\ [][NextRecency]_vars

\* The last n elements of a sequence, all of it when n is Unbounded.
LastN(seq, n) ==
    IF n = Unbounded \/ Len(seq) <= n THEN seq
    ELSE SubSeq(seq, Len(seq) - n + 1, Len(seq))

\* The distinct ids of arr[1..k], ordered by their last arrival.
RECURSIVE ByLastArrival(_, _)
ByLastArrival(arr, k) ==
    IF k = 0 THEN <<>>
    ELSE Append(SelectSeq(ByLastArrival(arr, k - 1), LAMBDA x : x # arr[k]), arr[k])

\* The ids of arr[1..k] that arrived while the last n kept ones did not hold
\* them, in the order they arrived.
RECURSIVE ByInsertion(_, _, _)
ByInsertion(arr, n, k) ==
    IF k = 0 THEN <<>>
    ELSE LET before == ByInsertion(arr, n, k - 1)
             kept == LastN(before, n)
         IN  IF \E i \in 1..Len(kept) : kept[i] = arr[k]
             THEN before
             ELSE Append(before, arr[k])

\* C2 as claimed: with no max age and no removals the window holds the N
\* most recently inserted-or-updated distinct ids (all of them when fewer).
C2_HoldsMostRecentlyTouched ==
    {TestWindow[i].Message.ID : i \in 1..Len(TestWindow)} =
        LET recent == LastN(ByLastArrival(arrivals, Len(arrivals)), MaxChannelMessages)
        IN  {recent[i] : i \in 1..Len(recent)}

\* C2 amended: with no max age and no removals the window holds, oldest
\* first, the N ids most recently appended to it (all of them when fewer);
\* an add-or-update for an id the window holds appends nothing and leaves
\* the id where it is.
C2_HoldsMostRecentlyAppended ==
    IDsOf(TestWindow) =
        LastN(ByInsertion(arrivals, MaxChannelMessages, Len(arrivals)), MaxChannelMessages)

\* An id was updated in place and older ids were cut by the count since.
C2_Witness ==
    /\ MaxChannelMessages >= 1
    /\ Len(ByInsertion(arrivals, MaxChannelMessages, Len(arrivals))) > MaxChannelMessages
    /\ Len(ByInsertion(arrivals, MaxChannelMessages, Len(arrivals))) < Len(arrivals)
    /\ Len(TestWindow) = MaxChannelMessages


(***************************************************************************)
(* Spec: the dispatcher of either build handling one event after another:  *)
(* the guild g1 with its channels c1 and c2, the private channel p1, and   *)
(* one message to c1.                                                      *)
(***************************************************************************)
NumSpecMessageIDs == 1
SpecMessageIDs == 1..NumSpecMessageIDs

ChannelNames == {"a", "b"}
GuildChannels ==
    {GuildChannel("c1", "g1", n) : n \in ChannelNames} \cup {GuildChannel("c2", "g1", "a")}
PrivateChannelPayloads == {DMChannel("p1", "a")}
ChannelPayloads == GuildChannels \cup PrivateChannelPayloads

ChannelLists ==
    {None, Some(<<>>), Some(<<GuildChannel("c1", "g1", "a")>>),
     Some(<<GuildChannel("c1", "g1", "a"), GuildChannel("c2", "g1", "a")>>)}
GuildPayloads == {GuildPayload("g1", "n", l) : l \in ChannelLists}
GuildIDs == {"g1"}

ReadyPayloads ==
    {[PrivateChannels |-> p, Guilds |-> g] :
        p \in {<<>>, <<DMChannel("p1", "a")>>},
        g \in {<<>>, <<GuildPayload("g1", "n", Some(<<GuildChannel("c1", "g1", "a")>>))>>}}

MessagePayloads ==
    {Message(id, "c1", "a", EmptyTimestamp, EmptyTimestamp) : id \in SpecMessageIDs}

Init ==
    /\ build \in Builds
    /\ MaxChannelMessages = Unbounded
    /\ MaxMessageAge = 0
    /\ TrackChannels = TRUE
    /\ ThrowAwayDMMessages = FALSE
    /\ RemoveDeletedMessages = TRUE
    /\ StoreIs(NewState)
    /\ now = 1
    /\ last = NoEvent
    /\ AuxIdle
    /\ TrackAll

Next ==
    \/ \E g \in GuildPayloads : HandleGuildCreate(g) /\ UNCHANGED aux
    \/ \E g \in GuildPayloads : HandleGuildUpdate(g) /\ UNCHANGED aux
    \/ \E id \in GuildIDs : HandleGuildDelete(id) /\ UNCHANGED aux
    \/ \E r \in ReadyPayloads : HandleReadyEvent(r) /\ UNCHANGED aux
    \/ \E c \in ChannelPayloads : HandleChannelCreate(c) /\ UNCHANGED aux
    \/ \E c \in ChannelPayloads : HandleChannelUpdate(c) /\ UNCHANGED aux
    \/ \E c \in ChannelPayloads : HandleChannelDelete(c) /\ UNCHANGED aux
    \/ \E m \in MessagePayloads : HandleMessageCreate(m) /\ UNCHANGED aux
    \/ \E m \in MessagePayloads : HandleMessageDelete(m.ChannelID, m.ID) /\ UNCHANGED aux

Spec == Init /\ [][Next]_vars

\* The guild objects State.Guilds holds, and a channel create for a guild
\* it holds.
RegisteredGuilds == Range(Guilds) \ {NilAddr}

\* C8 as claimed: every channel in the channel map of a registered guild
\* state is in the global channel index under the same id.
C8_GuildChannelsAreIndexed ==
    \A g \in RegisteredGuilds : \A id \in DOMAIN guildObjs[g].Channels :
        StateChannel(Store, id) # NilAddr

\* C9 as claimed: when the same channel create for a known guild is handled
\* twice in a row, the guild's channel map and the index hold one and the
\* same channel state under the id afterwards, and the second handling
\* leaves its message window as it was.
C9_SecondChannelCreateChangesNothing ==
    [][(/\ last'.kind = "ChannelCreate"
        /\ last'.repeat
        /\ StateGuild(Store, last'.payload[1].GuildID) # NilAddr)
       => LET id == last'.payload[1].ID
              g == MapGet(Guilds', last'.payload[1].GuildID)
              c == MapGet(channels', id)
          IN  /\ g # NilAddr
              /\ id \in DOMAIN guildObjs'[g].Channels
              /\ c # NilAddr
              /\ c = guildObjs'[g].Channels[id]
              /\ chanObjs'[c].Messages = Window(Store, id)]_vars


\* Whether the cache leads to a channel of the id: through the index,
\* through the private channels, or through the channel map of a
\* registered guild.
Reachable(chans, private, gs, gObjs, id) ==
    \/ id \in DOMAIN chans
    \/ id \in DOMAIN private
    \/ \E g \in DOMAIN gs : gs[g] # NilAddr /\ id \in DOMAIN gObjs[gs[g]].Channels

\* C34 as claimed: after a channel delete event for a channel the index
\* holds, the channel is in neither the index, nor the private channels,
\* nor the channel map of its guild.
C34_DeletedChannelUnreachable ==
    [][(last'.kind = "ChannelDelete" /\ last'.hit)
          => ~Reachable(channels', PrivateChannels', Guilds', guildObjs',
                        last'.channel)]_vars


(***************************************************************************)
(* SpecRecreate: the guild g1 created, updated, removed and created again  *)
(* with every channel list, while its channels c1 and c2 take messages.    *)
(***************************************************************************)
NumRecreateIDs == 1
RecreateIDs == 1..NumRecreateIDs

InitRecreate ==
    /\ build \in Builds
    /\ MaxChannelMessages = Unbounded
    /\ MaxMessageAge = 0
    /\ TrackChannels = TRUE
    /\ ThrowAwayDMMessages = FALSE
    /\ RemoveDeletedMessages = TRUE
    /\ StoreIs(NewState)
    /\ now = 1
    /\ last = NoEvent
    /\ AuxIdle
    /\ TrackAll

NextRecreate ==
    \/ \E g \in GuildPayloads : HandleGuildCreate(g) /\ UNCHANGED aux
    \/ \E g \in GuildPayloads : HandleGuildUpdate(g) /\ UNCHANGED aux
    \/ HandleGuildDelete("g1") /\ UNCHANGED aux
    \/ \E id \in RecreateIDs, c \in {"c1", "c2"} :
           HandleMessageCreate(Message(id, c, "a", EmptyTimestamp, EmptyTimestamp))
           /\ UNCHANGED aux

SpecRecreate == InitRecreate /\ [][NextRecreate]_vars

\* The channel ids a guild payload lists.
ListedChannels(guild) ==
    {ListOf(guild.Channels)[i].ID : i \in 1..Len(ListOf(guild.Channels))}

LifecycleGuilds ==
    {GuildPayload("g1", "n", None),
     GuildPayload("g1", "n", Some(<<GuildChannel("c1", "g1", "a")>>))}

LifecycleReady ==
    [PrivateChannels |-> <<>>,
     Guilds |-> <<GuildPayload("g1", "n", Some(<<GuildChannel("c1", "g1", "a")>>))>>]

InitLifecycle ==
    /\ build \in Builds
    /\ MaxChannelMessages = Unbounded
    /\ MaxMessageAge = 0
    /\ TrackChannels = TRUE
    /\ ThrowAwayDMMessages = FALSE
    /\ RemoveDeletedMessages = TRUE
    /\ StoreIs(NewState)
    /\ now = 1
    /\ last = NoEvent
    /\ AuxIdle
    /\ TrackAll

NextLifecycle ==
    \/ \E g \in LifecycleGuilds : HandleGuildCreate(g) /\ UNCHANGED aux
    \/ \E g \in LifecycleGuilds : HandleGuildUpdate(g) /\ UNCHANGED aux
    \/ HandleGuildDelete("g1") /\ UNCHANGED aux
    \/ HandleReadyEvent(LifecycleReady) /\ UNCHANGED aux
    \/ HandleGuildMemberAddUpdate("GuildMemberAdd", "g1", Member("u1", None))
           /\ UNCHANGED aux
    \/ HandleGuildMemberRemove("g1", "u1") /\ UNCHANGED aux
    \/ HandleChannelCreate(GuildChannel("c1", "g1", "a")) /\ UNCHANGED aux
    \/ HandleChannelDelete(GuildChannel("c1", "g1", "a")) /\ UNCHANGED aux
    \/ HandleGuildRoleAddUpdate("GuildRoleCreate", "g1", Role("r1", {})) /\ UNCHANGED aux
    \/ HandleGuildRoleDelete("g1", "r1") /\ UNCHANGED aux
    \/ HandleMessageCreate(Message(1, "c1", "a", EmptyTimestamp, EmptyTimestamp))
           /\ UNCHANGED aux
    \/ HandlePresenceUpdate("g1", Presence("u1", "offline"))
           /\ UNCHANGED <<arrivals, pows, held, threads, returned, direct>>
    \/ HandleVoiceStateUpdate(VoiceState("g1", "u1", "c1")) /\ UNCHANGED aux

SpecLifecycle == InitLifecycle /\ [][NextLifecycle]_vars

\* C12 as claimed: a guild that is not in the registry comes to be in it
\* only by a guild create, a ready or a guild update; a guild update for a
\* guild that is not in it leaves the guild in it with every channel the
\* update lists in its channel map and in the index; a guild that is in
\* the registry leaves it only by a guild delete.  No event of another
\* kind changes which guilds the registry holds.
C12_GuildLifecycle ==
    [][\A id \in GuildIDs :
          LET before == StateGuild(Store, id) # NilAddr
              g == MapGet(Guilds', id)
          IN  /\ (~before /\ g # NilAddr)
                     => last'.kind \in {"GuildCreate", "Ready", "GuildUpdate"}
              /\ (before /\ g = NilAddr) => last'.kind = "GuildDelete"
              /\ (~before /\ last'.kind = "GuildUpdate" /\ last'.payload[1].ID = id)
                     => /\ g # NilAddr
                        /\ \A c \in ListedChannels(last'.payload[1]) :
                               /\ c \in DOMAIN guildObjs'[g].Channels
                               /\ MapGet(channels', c) = guildObjs'[g].Channels[c]]_vars

\* A guild update for a guild the registry did not hold has been handled,
\* and the guild and the channel the update lists are found.
C12_Witness ==
    /\ last.kind = "GuildUpdate"
    /\ ~last.hit
    /\ ListedChannels(last.payload[1]) = {"c1"}
    /\ StateGuild(Store, "g1") # NilAddr
    /\ StateChannel(Store, "c1") # NilAddr


(***************************************************************************)
(* SpecReady: TestSecondReady's events in any order and number: a ready    *)
(* that lists g1 as an unavailable guild, without a channel list, and a    *)
(* guild create that brings g1 with its channels; channel creates and      *)
(* deletes and a message in between.                                       *)
(***************************************************************************)
UnavailableGuild == GuildPayload("g1", "n", None)

SecondReady == [PrivateChannels |-> <<>>, Guilds |-> <<UnavailableGuild>>]

LoadedGuild ==
    GuildPayload("g1", "n",
        Some(<<GuildChannel("c1", "g1", "a"), GuildChannel("c2", "g1", "a")>>))

InitReady ==
    /\ build \in Builds
    /\ MaxChannelMessages = Unbounded
    /\ MaxMessageAge = 0
    /\ TrackChannels = TRUE
    /\ ThrowAwayDMMessages = FALSE
    /\ RemoveDeletedMessages = TRUE
    /\ StoreIs(NewState)
    /\ now = 1
    /\ last = NoEvent
    /\ AuxIdle
    /\ TrackAll

NextReady ==
    \/ HandleReadyEvent(SecondReady) /\ UNCHANGED aux
    \/ HandleGuildCreate(LoadedGuild) /\ UNCHANGED aux
    \/ \E c \in GuildChannels : HandleChannelCreate(c) /\ UNCHANGED aux
    \/ \E c \in GuildChannels : HandleChannelDelete(c) /\ UNCHANGED aux
    \/ \E c \in {"c1", "c2"} :
           HandleMessageCreate(Message(1, c, "a", EmptyTimestamp, EmptyTimestamp))
           /\ UNCHANGED aux

SpecReady == InitReady /\ [][NextReady]_vars

\* The channel ids found both in the channel map of the guild object at g
\* and in the index.
KnownChannels(s, g) ==
    {c \in DOMAIN s.guildObjs[g].Channels : StateChannel(s, c) # NilAddr}

\* C13 as claimed: a ready that lists a guild that is known leaves the
\* guild in the registry, and every channel of it that was found both in
\* its channel map and in the index is found in both afterwards; after a
\* guild create for a known guild, every channel the guild lists is found
\* in both.
C13_ReadyKeepsKnownChannels ==
    [][/\ last'.kind = "Ready"
          => \A i \in 1..Len(last'.payload[1].Guilds) :
                LET id == last'.payload[1].Guilds[i].ID
                    g == MapGet(Guilds', id)
                IN  StateGuild(Store, id) # NilAddr
                       => /\ g # NilAddr
                          /\ \A c \in KnownChannels(Store, StateGuild(Store, id)) :
                                 /\ c \in DOMAIN guildObjs'[g].Channels
                                 /\ MapGet(channels', c) # NilAddr
       /\ (last'.kind = "GuildCreate" /\ last'.hit)
          => LET g == MapGet(Guilds', last'.payload[1].ID)
             IN  /\ g # NilAddr
                 /\ \A c \in ListedChannels(last'.payload[1]) :
                        /\ c \in DOMAIN guildObjs'[g].Channels
                        /\ MapGet(channels', c) # NilAddr]_vars


(***************************************************************************)
(* SpecPresence: the guild g1 of a State that removes offline members,     *)
(* under presence updates and member events for its members while time     *)
(* passes and the eviction timers run.  A presence update that starts a    *)
(* timer is handled while fewer than MaxTimers are pending and the timer   *)
(* comes due by MaxTime.                                                   *)
(***************************************************************************)
MaxTimers == 2
Users == {"u1"}
Statuses == {"online", "offline", EmptyStr}

InitPresence ==
    /\ build = "state.go"
    /\ MaxChannelMessages = Unbounded
    /\ MaxMessageAge = 0
    /\ TrackChannels = TRUE
    /\ ThrowAwayDMMessages = TRUE
    /\ RemoveDeletedMessages = TRUE
    /\ TrackMembers = TRUE
    /\ TrackRoles = TRUE
    /\ TrackVoice = TRUE
    /\ TrackPresences = TRUE
    /\ RemoveOfflineMembers = TRUE
    /\ StoreIs(GuildCreate(NewState, TestGuild))
    /\ now = 1
    /\ last = NoEvent
    /\ AuxIdle

PresenceFrame == UNCHANGED <<arrivals, pows, held, threads, returned, direct>>

PresenceArrives(u, status) ==
    /\ status = "offline" => Len(timers) < MaxTimers /\ now + GracePeriod <= MaxTime
    /\ HandlePresenceUpdate("g1", Presence(u, status))
    /\ PresenceFrame

TimerFires(i) == FireTimer(i) /\ PresenceFrame

NextPresence ==
    \/ \E u \in Users, status \in Statuses : PresenceArrives(u, status)
    \/ \E u \in Users :
           HandleGuildMemberAddUpdate("GuildMemberAdd", "g1", Member(u, None))
           /\ UNCHANGED aux
    \/ \E u \in Users : HandleGuildMemberRemove("g1", u) /\ UNCHANGED aux
    \/ \E i \in 1..MaxTimers : TimerFires(i)
    \/ Tick /\ UNCHANGED aux

SpecPresence == InitPresence /\ [][NextPresence]_vars

\* The step that takes the first timer off the queue when it is due, and
\* the step by which time passes: of the steps of NextPresence these are
\* TimerFires(1) and Tick, and they are enabled when those are.
TimerRuns ==
    /\ ~panicked
    /\ Len(timers) >= 1
    /\ timers[1].due <= now
    /\ timers' = WithoutIndex(timers, 1)

TimePasses == now < MaxTime /\ now' = now + 1

\* The timer started first runs once it is due (the runtime runs a due
\* timer and the callback gets the guild's lock), and time passes.
FairSpecPresence == SpecPresence /\ WF_timers(TimerRuns) /\ WF_now(TimePasses)

\* State.Guild(id).Members
GuildMembers(id) == guildObjs[StateGuild(Store, id)].Members

\* A timer for the member is pending, and no presence update for the
\* member has been handled since the one that started it.
OfflineSince(u) ==
    \E i \in 1..Len(timers) : timers[i].id = u /\ ~timers[i].updated

\* The event handled last is a presence update for the member.
PresenceChanged(u) ==
    last.kind = "PresenceUpdate" /\ last.payload[1][2].User.ID = u

\* C14 as claimed: with RemoveOfflineMembers set, once a presence update
\* has set a member offline, the member is eventually out of the guild's
\* member map, unless a later presence update for the member is handled.
C14_OfflineMemberEventuallyEvicted ==
    \A u \in Users :
        OfflineSince(u) ~> (u \notin DOMAIN GuildMembers("g1") \/ PresenceChanged(u))

\* A timer has run for a member that was in the map and had stayed
\* offline, and the member is out of the map.
C14_Witness ==
    /\ last.kind = "EvictionTimer"
    /\ last.hit
    /\ ~last.payload[1].updated
    /\ last.payload[1].id \notin DOMAIN GuildMembers("g1")

\* C15 as claimed: a timer's callback leaves the member in the map when a
\* presence update has brought the member a status other than offline
\* since the offline update that started the timer, whatever the status is
\* when it runs; it leaves in the map a member that is online when it runs.
C15_TimerEvictsOnlyIfNeverBackOnline ==
    [][(last'.kind = "EvictionTimer" /\ last'.hit)
          => LET id == last'.payload[1].id
                 presence == GuildMembers("g1")[id].Presence
                 online == presence # None /\ presence[1].Status = "online"
             IN  (last'.payload[1].flipped \/ online)
                    => id \in DOMAIN guildObjs'[MapGet(Guilds', "g1")].Members]_vars


(***************************************************************************)
(* SpecPerms: MemberPermissions asked of one guild.  The guild has an      *)
(* owner without a member entry, the everyone role (its id is the guild's) *)
(* and the roles r1 and r2, the member u1, the user u2 of whom only a      *)
(* presence is known, and the channel c1 with an overwrite for the         *)
(* everyone role, for each role and for u1, listed in either order.  Init  *)
(* draws the bits of the roles, the roles u1 holds and the bits of each    *)
(* overwrite; the one action asks for the permissions of a member in a     *)
(* channel.                                                                *)
(***************************************************************************)
PermissionOverwrite(id, type, allow, deny) ==
    [ID |-> id, Type |-> type, Allow |-> allow, Deny |-> deny]

EveryonePermissionSets == {{}, PermissionSendMessages, PermissionAdministrator}
RolePermissionSets == {{}, PermissionAdministrator}
MemberRoleLists == {<<"r1">>, <<"r2">>, <<"r1", "r2">>}

NoEffect == [Allow |-> {}, Deny |-> {}]
AllowsSend == [Allow |-> PermissionSendMessages, Deny |-> {}]
DeniesSend == [Allow |-> {}, Deny |-> PermissionSendMessages]
AllowsAdministrator == [Allow |-> PermissionAdministrator, Deny |-> {}]
Effects == {NoEffect, AllowsSend, DeniesSend}

\* The overwrite objects of c1, by address.
PermsOverwrites(e, r1, r2, m) ==
    <<PermissionOverwrite("g1", "role", e.Allow, e.Deny),
      PermissionOverwrite("r1", "role", r1.Allow, r1.Deny),
      PermissionOverwrite("r2", "role", r2.Allow, r2.Deny),
      PermissionOverwrite("u1", "member", m.Allow, m.Deny)>>

OverwriteOrders == {<<1, 2, 3, 4>>, <<4, 3, 2, 1>>}

PermsGuildPayload(everyone, role1, memberRoles, order) ==
    [GuildPayload("g1", "n",
                  Some(<<[GuildChannel("c1", "g1", "a") EXCEPT
                             !.PermissionOverwrites = Some(order)]>>))
     EXCEPT !.OwnerID = "owner",
            !.Roles = Some(<<Role("g1", everyone), Role("r1", role1),
                             Role("r2", PermissionKickMembers)>>),
            !.Members = <<Member("u1", Some(memberRoles))>>,
            !.Presences = <<Presence("u2", "online")>>]

InitPerms ==
    /\ build \in Builds
    /\ MaxChannelMessages = Unbounded
    /\ MaxMessageAge = 0
    /\ TrackChannels = TRUE
    /\ ThrowAwayDMMessages = TRUE
    /\ RemoveDeletedMessages = TRUE
    /\ TrackAll
    /\ \E everyone \in EveryonePermissionSets, role1 \in RolePermissionSets,
          memberRoles \in MemberRoleLists, order \in OverwriteOrders :
           StoreIs(GuildCreate(NewState,
                               PermsGuildPayload(everyone, role1, memberRoles, order)))
    /\ \E e \in Effects, r1 \in Effects, r2 \in Effects \cup {AllowsAdministrator},
          m \in Effects :
           pows = PermsOverwrites(e, r1, r2, m)
    /\ now = 1
    /\ last = NoEvent
    /\ arrivals = <<>> /\ held = None /\ threads = <<>>
    /\ timers = <<>> /\ returned = None /\ DirectIdle

PermsChannelIDs == {"c1", "c9"}
PermsMemberIDs == {"owner", "u1", "u2", "u9"}

\* g.MemberPermissions(true, channelID, memberID) on the guild g1.
CallMemberPermissions(channelID, memberID) ==
    /\ ~panicked
    /\ returned' = Some(MemberPermissions(Store, pows, StateGuild(Store, "g1"),
                                          channelID, memberID))
    /\ last' = [NoEvent EXCEPT !.kind = "MemberPermissions", !.channel = channelID,
                               !.payload = Some(memberID)]
    /\ UNCHANGED <<config, store, now, arrivals, pows, held, threads, timers, direct>>

NextPerms ==
    \E channelID \in PermsChannelIDs, memberID \in PermsMemberIDs :
        CallMemberPermissions(channelID, memberID)

SpecPerms == InitPerms /\ [][NextPerms]_vars

\* The last call and what it returned.
PermsCalled == last.kind = "MemberPermissions"
AskedChannel == last.channel
AskedMember == last.payload[1]
Answer == returned[1]

\* The guild as the cache holds it.
PermsGuild == guildObjs[MapGet(Guilds, "g1")]
KnownMember(u) ==
    u \in DOMAIN PermsGuild.Members /\ PermsGuild.Members[u].Member # None
HeldRoles(u) ==
    LET roles == ListOf(PermsGuild.Members[u].Member[1].Roles)
    IN  {roles[i] : i \in 1..Len(roles)}
\* The OR of the bits of the everyone role and of the roles u holds.
Aggregate(u) ==
    LET roles == ListOf(PermsGuild.Guild.Roles)
    IN  UNION {roles[i].Permissions :
                  i \in {k \in 1..Len(roles) :
                            roles[k].ID \in HeldRoles(u) \cup {PermsGuild.Guild.ID}}}
\* A known member that is neither the owner nor an administrator.
PlainMember(u) ==
    /\ u # PermsGuild.Guild.OwnerID
    /\ KnownMember(u)
    /\ ~(PermissionAdministrator \subseteq Aggregate(u))
\* The overwrites of channel c, in the order of its list.
OverwritesOf(c) ==
    LET list == ListOf(chanObjs[PermsGuild.Channels[c]].Channel.PermissionOverwrites)
    IN  [i \in 1..Len(list) |-> pows[list[i]]]
\* The places in c's list of the overwrites for the roles u holds, and of
\* those for u.
RolePlaces(c, u) ==
    {i \in DOMAIN OverwritesOf(c) :
        OverwritesOf(c)[i].Type = "role" /\ OverwritesOf(c)[i].ID \in HeldRoles(u)}
MemberPlaces(c, u) ==
    {i \in DOMAIN OverwritesOf(c) :
        OverwritesOf(c)[i].Type = "member" /\ OverwritesOf(c)[i].ID = u}

\* C16: asked for the guild's owner, MemberPermissions returns every
\* permission bit and no error, whatever the channel, the roles and the
\* overwrites are, with no member entry for the owner and for a channel the
\* guild does not have.
C16_OwnerHasAllPermissions ==
    (PermsCalled /\ AskedMember = PermsGuild.Guild.OwnerID)
        => returned = Some([apermissions |-> PermissionAll, err |-> "nil"])

C16_Witness ==
    /\ PermsCalled
    /\ AskedMember = PermsGuild.Guild.OwnerID
    /\ AskedMember \notin DOMAIN PermsGuild.Members
    /\ AskedChannel \notin DOMAIN PermsGuild.Channels
    /\ Answer.apermissions = PermissionAll

\* C17: for a known member that is not the owner, when the bits of the
\* everyone role and of the roles the member holds include the
\* administrator bit, MemberPermissions returns every permission bit and no
\* error, whatever the overwrites deny and for a channel the guild does not
\* have too.
C17_AdministratorHasAllPermissions ==
    (/\ PermsCalled
     /\ AskedMember # PermsGuild.Guild.OwnerID
     /\ KnownMember(AskedMember)
     /\ PermissionAdministrator \subseteq Aggregate(AskedMember))
        => Answer.err = "nil" /\ PermissionAll \subseteq Answer.apermissions

C17_Witness ==
    /\ PermsCalled
    /\ AskedMember = "u1"
    /\ PermissionAdministrator \subseteq Aggregate("u1")
    /\ AskedChannel = "c1"
    /\ \E i \in MemberPlaces("c1", "u1") :
           OverwritesOf("c1")[i].Deny = PermissionSendMessages
    /\ Answer.apermissions = PermissionAll

\* C18: for a known member that is neither owner nor administrator and
\* holds two roles, when one role's overwrite denies a bit, the other
\* role's overwrite allows it and no overwrite for the member touches it,
\* the result has the bit, in either order of the two overwrites.
C18_RoleAllowBeatsRoleDeny ==
    (PermsCalled /\ PlainMember(AskedMember)
         /\ AskedChannel \in DOMAIN PermsGuild.Channels)
        => \A X \in PermissionAll :
               (/\ \E i, j \in RolePlaces(AskedChannel, AskedMember) :
                       /\ OverwritesOf(AskedChannel)[i].ID # OverwritesOf(AskedChannel)[j].ID
                       /\ X \in OverwritesOf(AskedChannel)[i].Deny
                       /\ X \in OverwritesOf(AskedChannel)[j].Allow
                /\ \A k \in MemberPlaces(AskedChannel, AskedMember) :
                       X \notin OverwritesOf(AskedChannel)[k].Deny
                                    \cup OverwritesOf(AskedChannel)[k].Allow)
                   => X \in Answer.apermissions

\* The allowing overwrite comes before the denying one in the list.
C18_Witness ==
    /\ PermsCalled /\ PlainMember(AskedMember)
    /\ AskedChannel = "c1"
    /\ \E i, j \in RolePlaces("c1", AskedMember) :
           /\ i > j
           /\ PermissionSendMessages \subseteq OverwritesOf("c1")[i].Deny
           /\ PermissionSendMessages \subseteq OverwritesOf("c1")[j].Allow
    /\ \A k \in MemberPlaces("c1", AskedMember) :
           OverwritesOf("c1")[k] = PermissionOverwrite(AskedMember, "member", {}, {})
    /\ PermissionSendMessages \subseteq Answer.apermissions

\* What the overwrite for the member, the overwrites for the held roles
\* and the result say of a bit.
MemberDenies(X) ==
    \E k \in MemberPlaces(AskedChannel, AskedMember) :
        X \in OverwritesOf(AskedChannel)[k].Deny
        /\ X \notin OverwritesOf(AskedChannel)[k].Allow
MemberAllows(X) ==
    \E k \in MemberPlaces(AskedChannel, AskedMember) :
        X \in OverwritesOf(AskedChannel)[k].Allow
MemberSilent(X) ==
    \A k \in MemberPlaces(AskedChannel, AskedMember) :
        X \notin OverwritesOf(AskedChannel)[k].Deny \cup OverwritesOf(AskedChannel)[k].Allow
RolesAllow(X) ==
    \E i \in RolePlaces(AskedChannel, AskedMember) :
        X \in OverwritesOf(AskedChannel)[i].Allow
RolesDeny(X) ==
    \E i \in RolePlaces(AskedChannel, AskedMember) :
        X \in OverwritesOf(AskedChannel)[i].Deny
PlainCall ==
    PermsCalled /\ PlainMember(AskedMember) /\ AskedChannel \in DOMAIN PermsGuild.Channels

\* C19 as stated: for a known member that is neither owner nor
\* administrator the overwrite for the member decides last: a bit it denies
\* and does not allow is not in the result, a bit it allows is; and where
\* it is silent the role overwrites decide over the everyone overwrite: a
\* bit they allow is in the result, a bit they deny and do not allow is not.
C19_MemberOverwriteIsLast ==
    PlainCall
        => \A X \in PermissionAll :
               /\ MemberDenies(X) => X \notin Answer.apermissions
               /\ MemberAllows(X) => X \in Answer.apermissions
               /\ (MemberSilent(X) /\ RolesAllow(X)) => X \in Answer.apermissions
               /\ (MemberSilent(X) /\ RolesDeny(X) /\ ~RolesAllow(X))
                      => X \notin Answer.apermissions

\* C19 amended: the same, unless the overwrites leave the administrator bit
\* set: then the result has every bit of the channel level, denied or not.
C19_MemberOverwriteIsLastUnlessAdministrator ==
    PlainCall
        => /\ PermissionAdministrator \subseteq Answer.apermissions
                  => PermissionAllChannel \subseteq Answer.apermissions
           /\ \A X \in PermissionAll :
                  /\ MemberDenies(X)
                         => \/ X \notin Answer.apermissions
                            \/ /\ PermissionAdministrator \subseteq Answer.apermissions
                               /\ X \in PermissionAllChannel
                  /\ MemberAllows(X) => X \in Answer.apermissions
                  /\ (MemberSilent(X) /\ RolesAllow(X)) => X \in Answer.apermissions
                  /\ (MemberSilent(X) /\ RolesDeny(X) /\ ~RolesAllow(X))
                         => \/ X \notin Answer.apermissions
                            \/ /\ PermissionAdministrator \subseteq Answer.apermissions
                               /\ X \in PermissionAllChannel

\* The overwrite for the member denies a bit that a role overwrite allows
\* and the everyone role has, and the result is without it.
C19_Witness ==
    /\ PlainCall
    /\ MemberDenies("SendMessages")
    /\ RolesAllow("SendMessages")
    /\ "SendMessages" \in Aggregate(AskedMember)
    /\ "SendMessages" \notin Answer.apermissions

\* C20: asked for a member that is not the owner and of whom the guild has
\* no member data, MemberPermissions returns ErrMemberNotFound; asked for a
\* known member, neither owner nor administrator, and a channel the guild
\* does not have, it returns ErrChannelNotFound; both leave the cached
\* state as it was.
C20_NotFoundErrors ==
    [][(last'.kind = "MemberPermissions")
          => LET memberID == last'.payload[1]
                 channelID == last'.channel
             IN  /\ (memberID # PermsGuild.Guild.OwnerID /\ ~KnownMember(memberID))
                        => returned'[1].err = "ErrMemberNotFound" /\ UNCHANGED store
                 /\ (PlainMember(memberID) /\ channelID \notin DOMAIN PermsGuild.Channels)
                        => returned'[1].err = "ErrChannelNotFound" /\ UNCHANGED store]_vars

C20_Witness ==
    /\ PermsCalled
    /\ PlainMember(AskedMember)
    /\ AskedChannel \notin DOMAIN PermsGuild.Channels
    /\ Answer.err = "ErrChannelNotFound"


(***************************************************************************)
(* SpecToggles: the events of every kind under the settings of the State.  *)
(* The cache holds what a ready event with one private channel and one     *)
(* guild (a channel, a role, a member) leaves; at most one of the five     *)
(* tracking settings is on, and the holder of the State may set            *)
(* ThrowAwayDMMessages once messages have come in.                         *)
(***************************************************************************)
\* The store with its objects at the addresses SetStore gives them.
Settled(s) == Normalise(Collect(s, {}, {}), <<>>, <<>>).store

ToggledGuild ==
    [GuildPayload("g1", "n", Some(<<GuildChannel("c1", "g1", "a")>>))
     EXCEPT !.Roles = Some(<<Role("r1", {})>>),
            !.Members = <<Member("u1", None)>>]

ToggledReady == [PrivateChannels |-> <<DMChannel("p1", "a")>>, Guilds |-> <<ToggledGuild>>]

TrackingSettings == {"TrackMembers", "TrackChannels", "TrackRoles", "TrackVoice",
                     "TrackPresences"}

InitToggles ==
    /\ build \in Builds
    /\ MaxChannelMessages = Unbounded
    /\ MaxMessageAge = 0
    /\ ThrowAwayDMMessages = FALSE
    /\ RemoveDeletedMessages = TRUE
    /\ RemoveOfflineMembers = FALSE
    /\ \E on \in {{}} \cup {{x} : x \in TrackingSettings} :
           /\ TrackMembers = ("TrackMembers" \in on)
           /\ TrackChannels = ("TrackChannels" \in on)
           /\ TrackRoles = ("TrackRoles" \in on)
           /\ TrackVoice = ("TrackVoice" \in on)
           /\ TrackPresences = ("TrackPresences" \in on)
    /\ StoreIs(Settled(HandleReady(NewState, build, ToggledReady)))
    /\ now = 1
    /\ last = NoEvent
    /\ AuxIdle

\* The holder of the State sets s.ThrowAwayDMMessages.
SetThrowAwayDMMessages ==
    /\ ~ThrowAwayDMMessages
    /\ ThrowAwayDMMessages' = TRUE
    /\ last' = NoEvent
    /\ UNCHANGED <<build, MaxChannelMessages, MaxMessageAge, TrackChannels,
                   RemoveDeletedMessages, TrackMembers, TrackRoles, TrackVoice,
                   TrackPresences, RemoveOfflineMembers, store, now, aux>>

NextToggles ==
    \/ HandleGuildMemberAddUpdate("GuildMemberAdd", "g1", Member("u2", None))
       /\ UNCHANGED aux
    \/ HandleGuildMemberAddUpdate("GuildMemberUpdate", "g1",
                                  [Member("u1", None) EXCEPT !.Nick = "b"])
       /\ UNCHANGED aux
    \/ HandleGuildMemberRemove("g1", "u2") /\ UNCHANGED aux
    \/ HandleChannelCreate(GuildChannel("c2", "g1", "a")) /\ UNCHANGED aux
    \/ HandleChannelUpdate(GuildChannel("c1", "g1", "b")) /\ UNCHANGED aux
    \/ HandleChannelDelete(GuildChannel("c2", "g1", "a")) /\ UNCHANGED aux
    \/ HandleGuildRoleAddUpdate("GuildRoleCreate", "g1", Role("r2", {})) /\ UNCHANGED aux
    \/ HandleGuildRoleAddUpdate("GuildRoleUpdate", "g1", Role("r1", PermissionAll))
       /\ UNCHANGED aux
    \/ HandleGuildRoleDelete("g1", "r2") /\ UNCHANGED aux
    \/ \E c \in {EmptyStr, "c1"} :
           HandleVoiceStateUpdate(VoiceState("g1", "u1", c)) /\ UNCHANGED aux
    \/ \E status \in {"online", "idle"} :
           HandlePresenceUpdate("g1", Presence("u1", status))
           /\ UNCHANGED <<arrivals, pows, held, threads, returned, direct>>
    \/ HandleMessageCreate(Message(1, "p1", "a", EmptyTimestamp, EmptyTimestamp))
       /\ UNCHANGED aux
    \/ HandleMessageUpdate(Message(1, "p1", "b", EmptyTimestamp, EmptyTimestamp))
       /\ UNCHANGED aux
    \/ HandleMessageDelete("p1", 1) /\ UNCHANGED aux
    \/ SetThrowAwayDMMessages

SpecToggles == InitToggles /\ [][NextToggles]_vars

MemberEventKinds == {"GuildMemberAdd", "GuildMemberUpdate", "GuildMemberRemove"}
ChannelEventKinds == {"ChannelCreate", "ChannelUpdate", "ChannelDelete"}
RoleEventKinds == {"GuildRoleCreate", "GuildRoleUpdate", "GuildRoleDelete"}
MessageEventKinds == {"MessageCreate", "MessageUpdate", "MessageDelete"}

\* C21: with the tracking setting of its kind off, a member, channel, role,
\* voice or presence event leaves the whole cache as it was; with
\* ThrowAwayDMMessages set, a message create, update or delete for a
\* private channel leaves the channel's window as it was.
C21_DisabledKindsAreDropped ==
    [][/\ (last'.kind \in MemberEventKinds /\ ~TrackMembers) => UNCHANGED store
       /\ (last'.kind \in ChannelEventKinds /\ ~TrackChannels) => UNCHANGED store
       /\ (last'.kind \in RoleEventKinds /\ ~TrackRoles) => UNCHANGED store
       /\ (last'.kind = "VoiceStateUpdate" /\ ~TrackVoice) => UNCHANGED store
       /\ (last'.kind = "PresenceUpdate" /\ ~TrackPresences)
              => UNCHANGED <<store, timers>>
       /\ (/\ last'.kind \in MessageEventKinds
           /\ ThrowAwayDMMessages
           /\ last'.channel \in {"p1"})
              => chanObjs'[MapGet(channels', "p1")].Messages = Window(Store, "p1")]_vars

\* A delete for a message the private channel's window holds was dropped.
C21_Witness ==
    /\ last.kind = "MessageDelete"
    /\ last.channel = "p1"
    /\ ThrowAwayDMMessages
    /\ ~TrackChannels
    /\ Len(Window(Store, "p1")) = 1


(***************************************************************************)
(* SpecUnknown: events that name a guild, channel, member, message or role *)
(* the cache does not hold, among events for the guild g1 it holds, in     *)
(* either build; the State removes offline members, and g1 may be deleted  *)
(* and u1 removed while a timer for u1 is pending.                         *)
(***************************************************************************)
InitUnknown ==
    /\ build \in Builds
    /\ MaxChannelMessages = Unbounded
    /\ MaxMessageAge = 0
    /\ TrackChannels = TRUE
    /\ ThrowAwayDMMessages = FALSE
    /\ RemoveDeletedMessages = TRUE
    /\ TrackMembers = TRUE
    /\ TrackRoles = TRUE
    /\ TrackVoice = TRUE
    /\ TrackPresences = TRUE
    /\ RemoveOfflineMembers = TRUE
    /\ StoreIs(Settled(GuildCreate(NewState, ToggledGuild)))
    /\ now = 1
    /\ last = NoEvent
    /\ AuxIdle

\* The timers of the guild object at g hold an object the State has let go.
Detached(list, g) ==
    [i \in 1..Len(list) |->
        IF list[i].guild = g THEN [list[i] EXCEPT !.guild = DetachedGuild] ELSE list[i]]

UnknownFrame == UNCHANGED <<arrivals, pows, held, threads, returned, direct>>

NextUnknown ==
    \/ \E id \in {"g1", "g2"} :
           /\ HandleGuildDelete(id)
           /\ timers' = IF panicked' THEN timers
                        ELSE Detached(timers, StateGuild(Store, id))
           /\ UnknownFrame
    \/ HandleGuildMemberAddUpdate("GuildMemberAdd", "g2", Member("u1", None))
       /\ UNCHANGED aux
    \/ \E g \in {"g1", "g2"}, u \in {"u1", "u9"} :
           HandleGuildMemberRemove(g, u) /\ UNCHANGED aux
    \/ HandleChannelCreate(GuildChannel("c2", "g2", "a")) /\ UNCHANGED aux
    \/ HandleChannelUpdate(GuildChannel("c2", "g2", "b")) /\ UNCHANGED aux
    \/ \E c \in {GuildChannel("c2", "g2", "a"), GuildChannel("c2", "g1", "a")} :
           HandleChannelDelete(c) /\ UNCHANGED aux
    \/ HandleGuildRoleAddUpdate("GuildRoleCreate", "g2", Role("r1", {})) /\ UNCHANGED aux
    \/ \E g \in {"g1", "g2"} : HandleGuildRoleDelete(g, "r9") /\ UNCHANGED aux
    \/ HandleVoiceStateUpdate(VoiceState("g2", "u1", "c2")) /\ UNCHANGED aux
    \/ \E g \in {"g1", "g2"} :
           /\ g = "g1" => Len(timers) < MaxTimers /\ now + GracePeriod <= MaxTime
           /\ HandlePresenceUpdate(g, Presence("u1", "offline"))
           /\ UnknownFrame
    \/ HandleMessageCreate(Message(1, "c2", "a", EmptyTimestamp, EmptyTimestamp))
       /\ UNCHANGED aux
    \/ \E c \in {"c1", "c2"} : HandleMessageDelete(c, 2) /\ UNCHANGED aux
    \/ \E i \in 1..MaxTimers : FireTimer(i) /\ UnknownFrame
    \/ Tick /\ UNCHANGED aux

SpecUnknown == InitUnknown /\ [][NextUnknown]_vars

\* Whether the event e names something the store s does not hold.
UnknownTarget(e, s) ==
    LET guildOf ==
            IF e.kind = "GuildDelete" THEN e.payload[1]
            ELSE IF e.kind \in ChannelEventKinds \cup {"VoiceStateUpdate"}
            THEN e.payload[1].GuildID
            ELSE e.payload[1][1]
        guild == s.guildObjs[StateGuild(s, guildOf)]
    IN  IF e.kind \in MessageEventKinds
        THEN StateChannel(s, e.channel) = NilAddr \/ (e.kind = "MessageDelete" /\ ~e.hit)
        ELSE IF e.kind = "EvictionTimer" THEN ~e.hit
        ELSE IF e.kind \in {"GuildDelete", "VoiceStateUpdate", "PresenceUpdate"}
                           \cup MemberEventKinds \cup ChannelEventKinds \cup RoleEventKinds
        THEN \/ StateGuild(s, guildOf) = NilAddr
             \/ e.kind = "GuildMemberRemove" /\ e.payload[1][2] \notin DOMAIN guild.Members
             \/ e.kind = "ChannelDelete" /\ e.payload[1].ID \notin DOMAIN s.channels
             \/ /\ e.kind = "GuildRoleDelete"
                /\ \A i \in 1..Len(ListOf(guild.Guild.Roles)) :
                       ListOf(guild.Guild.Roles)[i].ID # e.payload[1][2]
        ELSE FALSE

\* C23 as claimed: an event that names a guild, channel, member, message
\* or role the cache does not hold, and a timer that fires when its guild or
\* member is gone, leave the cached state, the keys of the channel index
\* among it, as it was, and no operation fails, then or later.
C23_UnknownEntitiesHaveNoEffect ==
    [][/\ UnknownTarget(last', Store) => UNCHANGED store
       /\ ~panicked']_vars


(***************************************************************************)
(* SpecVoice: voice state updates for two users of the guild g1, with a    *)
(* channel id or with none.                                                *)
(***************************************************************************)
VoiceUsers == {"u1", "u2"}
VoiceChannels == {EmptyStr, "c1", "c2"}

InitVoice ==
    /\ build \in Builds
    /\ MaxChannelMessages = Unbounded
    /\ MaxMessageAge = 0
    /\ TrackChannels = TRUE
    /\ ThrowAwayDMMessages = TRUE
    /\ RemoveDeletedMessages = TRUE
    /\ TrackAll
    /\ StoreIs(Settled(GuildCreate(NewState, TestGuild)))
    /\ now = 1
    /\ last = NoEvent
    /\ AuxIdle

NextVoice ==
    \E u \in VoiceUsers, c \in VoiceChannels :
        HandleVoiceStateUpdate(VoiceState("g1", u, c)) /\ UNCHANGED aux

SpecVoice == InitVoice /\ [][NextVoice]_vars

\* The voice states of g1 in s, and those of them that are, or are not, of
\* the user u.
VoiceStatesIn(gObjs, gs) == ListOf(gObjs[MapGet(gs, "g1")].Guild.VoiceStates)
VoiceStatesOf(list, u) == SelectSeq(list, LAMBDA v : v.UserID = u)
VoiceStatesOfOthers(list, u) == SelectSeq(list, LAMBDA v : v.UserID # u)

\* C24 as claimed: after a voice state update without a channel id the
\* guild's list has no entry for the user, whether it had one or not; after
\* one with a channel id it has exactly one, the update's; the entries of
\* the other users are as they were.
C24_VoiceStateFollowsUpdate ==
    [][(last'.kind = "VoiceStateUpdate")
          => LET update == last'.payload[1]
                 old == VoiceStatesIn(guildObjs, Guilds)
                 new == VoiceStatesIn(guildObjs', Guilds')
             IN  /\ update.ChannelID = EmptyStr
                        => VoiceStatesOf(new, update.UserID) = <<>>
                 /\ update.ChannelID # EmptyStr
                        => VoiceStatesOf(new, update.UserID) = <<update>>
                 /\ VoiceStatesOfOthers(new, update.UserID)
                        = VoiceStatesOfOthers(old, update.UserID)]_vars


(***************************************************************************)
(* SpecMember: membership updates and presence updates for the member u1   *)
(* of the guild g1, in any order, with every field of the update present   *)
(* or empty.  The guild keeps the member as guildstate.go does, a Member   *)
(* and a Presence, or the member is a MemberState of memberstate.go or of  *)
(* part_000.                                                               *)
(***************************************************************************)
Nicks == {EmptyStr, "n1"}
Usernames == {EmptyStr, "a"}
JoinTimes == {EmptyStr, "t1"}
RoleLists == {None, Some(<<"r1">>)}
PresenceStatuses == {EmptyStr, "online", "away"}
Games == {None, Some("game")}

MemberData(nick, username, joinedAt, roles) ==
    [User |-> [ID |-> "u1", Username |-> username], Nick |-> nick,
     JoinedAt |-> joinedAt, Roles |-> roles]

PresenceData(nick, username, status, game) ==
    [User |-> [ID |-> "u1", Username |-> username], Nick |-> nick,
     Status |-> status, Game |-> game, Roles |-> None]

InitMember ==
    /\ \/ build \in Builds /\ memberVersion = "guildstate.go"
       \/ build = "state.go" /\ memberVersion \in MemberStateVersions
    /\ MaxChannelMessages = Unbounded
    /\ MaxMessageAge = 0
    /\ TrackChannels = TRUE
    /\ ThrowAwayDMMessages = TRUE
    /\ RemoveDeletedMessages = TRUE
    /\ TrackAll
    /\ StoreIs(Settled(GuildCreate(NewState, TestGuild)))
    /\ now = 1
    /\ last = NoEvent
    /\ arrivals = <<>> /\ pows = EmptyMap /\ held = None /\ threads = <<>>
    /\ timers = <<>> /\ returned = None /\ sending = None /\ standing = <<>>
    /\ memberState = ZeroMemberState(memberVersion)

\* A call of a method of the MemberState, noted in last.
MethodCall(name, argument) ==
    [NoEvent EXCEPT !.kind = name, !.payload = Some(argument)]

MemberFrame ==
    UNCHANGED <<config, store, now, arrivals, pows, held, threads, timers, returned,
                memberVersion, sending, standing>>

CallUpdateMember(member) ==
    /\ memberVersion \in MemberStateVersions
    /\ memberState' = UpdateMember(memberState, member)
    /\ last' = MethodCall("UpdateMember", member)
    /\ MemberFrame

CallUpdatePresence(presence) ==
    /\ memberVersion \in MemberStateVersions
    /\ memberState' = UpdatePresence(memberVersion, memberState, presence)
    /\ last' = MethodCall("UpdatePresence", presence)
    /\ MemberFrame

NextMember ==
    \/ \E n \in Nicks, u \in Usernames, j \in JoinTimes, r \in RoleLists :
           \/ /\ memberVersion = "guildstate.go"
              /\ HandleGuildMemberAddUpdate("GuildMemberUpdate", "g1",
                                            MemberData(n, u, j, r))
              /\ UNCHANGED aux
           \/ CallUpdateMember(MemberData(n, u, j, r))
    \/ \E n \in Nicks, u \in Usernames, st \in PresenceStatuses, game \in Games :
           \/ /\ memberVersion = "guildstate.go"
              /\ HandlePresenceUpdate("g1", PresenceData(n, u, st, game))
              /\ UNCHANGED <<arrivals, pows, held, threads, returned, direct>>
           \/ CallUpdatePresence(PresenceData(n, u, st, game))

SpecMember == InitMember /\ [][NextMember]_vars

\* What is stored of u1: the membership half and the presence half, each
\* None while no update of its kind has been stored.  A MemberState has
\* its name fields from the first update of either kind.
StoredMembership(version, gObjs, gs, m) ==
    IF version = "guildstate.go"
    THEN LET members == gObjs[MapGet(gs, "g1")].Members
         IN  IF "u1" \in DOMAIN members /\ members["u1"].Member # None
             THEN Some([Nick |-> members["u1"].Member[1].Nick,
                        Username |-> members["u1"].Member[1].User.Username,
                        Roles |-> members["u1"].Member[1].Roles,
                        JoinedAt |-> members["u1"].Member[1].JoinedAt,
                        MemberSet |-> TRUE])
             ELSE None
    ELSE IF m.MemberSet \/ m.PresenceSet
         THEN Some([Nick |-> m.Nick, Username |-> m.Username, Roles |-> m.Roles,
                    JoinedAt |-> m.JoinedAt, MemberSet |-> m.MemberSet])
         ELSE None

StoredStatus(version, gObjs, gs, m) ==
    IF version = "guildstate.go"
    THEN LET members == gObjs[MapGet(gs, "g1")].Members
         IN  IF "u1" \in DOMAIN members /\ members["u1"].Presence # None
             THEN Some(members["u1"].Presence[1].Status)
             ELSE None
    ELSE IF m.PresenceSet THEN Some(m.PresenceStatus) ELSE None

MembershipBefore == StoredMembership(memberVersion, guildObjs, Guilds, memberState)
MembershipAfter == StoredMembership(memberVersion', guildObjs', Guilds', memberState')
StatusBefore == StoredStatus(memberVersion, guildObjs, Guilds, memberState)
StatusAfter == StoredStatus(memberVersion', guildObjs', Guilds', memberState')

MembershipUpdated == last'.kind \in {"GuildMemberUpdate", "UpdateMember"}
PresenceUpdated == last'.kind \in {"PresenceUpdate", "UpdatePresence"}

\* C25 as claimed: a presence update for a member whose membership has been
\* observed leaves the member's nickname and username as they were.
C25_PresenceKeepsMemberNames ==
    [][(PresenceUpdated /\ MembershipBefore # None /\ MembershipBefore[1].MemberSet)
          => /\ MembershipAfter[1].Nick = MembershipBefore[1].Nick
             /\ MembershipAfter[1].Username = MembershipBefore[1].Username]_vars

\* C26 as claimed: a membership update with an empty nickname, a nil role
\* list or an empty join time leaves the stored nickname, role list or join
\* time as it was, and a presence update with an empty status leaves the
\* stored status as it was.
C26_EmptyMeansUnset ==
    [][/\ (MembershipUpdated /\ MembershipBefore # None)
          => LET member == IF last'.kind = "UpdateMember" THEN last'.payload[1]
                           ELSE last'.payload[1][2]
             IN  /\ member.Nick = EmptyStr
                        => MembershipAfter[1].Nick = MembershipBefore[1].Nick
                 /\ member.Roles = None
                        => MembershipAfter[1].Roles = MembershipBefore[1].Roles
                 /\ member.JoinedAt = EmptyStr
                        => MembershipAfter[1].JoinedAt = MembershipBefore[1].JoinedAt
       /\ (PresenceUpdated /\ StatusBefore # None)
          => LET presence == IF last'.kind = "UpdatePresence" THEN last'.payload[1]
                             ELSE last'.payload[1][2]
             IN  presence.Status = EmptyStr => StatusAfter = StatusBefore]_vars


(***************************************************************************)
(* SpecUnlimited: the window of one guild channel of a State with no max   *)
(* count and no max age, under creates, updates and deletes while time     *)
(* passes.  A delete removes the message: RemoveDeletedMessages has the    *)
(* value with which the build calls MessageRemove with mark unset.  The    *)
(* events are recorded in arrivals in the order they were handled, an      *)
(* add-or-update as the message id and a delete as its negative.           *)
(***************************************************************************)
InitUnlimited ==
    /\ build \in Builds
    /\ MaxChannelMessages = Unbounded
    /\ MaxMessageAge = 0
    /\ TrackChannels = TRUE
    /\ ThrowAwayDMMessages = TRUE
    /\ RemoveDeletedMessages = (build = "state.go")
    /\ TrackAll
    /\ StoreIs(Settled(GuildCreate(NewState, TestGuild)))
    /\ now = 1
    /\ last = NoEvent
    /\ AuxIdle

Recorded(entry) ==
    /\ Len(arrivals) < MaxArrivals
    /\ arrivals' = Append(arrivals, entry)
    /\ UNCHANGED <<pows, held, threads, calls>>

NextUnlimited ==
    \/ \E id \in WindowIDs :
           /\ HandleMessageCreate(Message(id, "c1", "a", TimestampOf(now), EmptyTimestamp))
           /\ Recorded(id)
    \/ \E id \in WindowIDs :
           /\ HandleMessageUpdate(Message(id, "c1", "b", EmptyTimestamp, TimestampOf(now)))
           /\ Recorded(id)
    \/ \E id \in WindowIDs : HandleMessageDelete("c1", id) /\ Recorded(0 - id)
    \/ Tick /\ UNCHANGED aux

SpecUnlimited == InitUnlimited /\ [][NextUnlimited]_vars

\* The ids the first k recorded events leave: an add-or-update of an id
\* that is not held puts it last, a delete takes the id out.
RECURSIVE Surviving(_, _)
Surviving(arr, k) ==
    IF k = 0 THEN <<>>
    ELSE LET before == Surviving(arr, k - 1)
         IN  IF arr[k] < 0 THEN SelectSeq(before, LAMBDA x : x # 0 - arr[k])
             ELSE IF \E i \in 1..Len(before) : before[i] = arr[k] THEN before
             ELSE Append(before, arr[k])

\* C27: with max count -1 and max age 0 no add-or-update evicts a message:
\* the window holds one entry for every id that was added or updated and
\* not removed since, in the order the ids arrived.
C27_UnlimitedWindowKeepsAll ==
    IDsOf(TestWindow) = Surviving(arrivals, Len(arrivals))

\* Two messages created at time 1 are both held, in order, after an update
\* of the first at time 3.
C27_Witness ==
    /\ now = MaxTime
    /\ last.kind = "MessageUpdate" /\ last.hit
    /\ Len(TestWindow) = NumWindowIDs
    /\ TestWindow[1].ParsedCreated = 1
    /\ TestWindow[1].ParsedEdited = MaxTime
    /\ TestWindow[2].ParsedCreated = 1


(***************************************************************************)
(* SpecSplit: SplitSendMessage sends a message of up to MaxBytes bytes in  *)
(* pieces of at most runeCount runes; the rune count is 2000 in the code   *)
(* and 1..MaxRuneCount here.  Every send succeeds.                         *)
(***************************************************************************)
MaxBytes == 5
MaxRuneCount == 3

RECURSIVE StringsOf(_)
StringsOf(n) ==
    IF n = 0 THEN {EmptyString}
    ELSE LET shorter == StringsOf(n - 1)
         IN  shorter \cup {Append(s, b) : s \in shorter, b \in Bytes}

InitSplit ==
    /\ build = "state.go"
    /\ MaxChannelMessages = Unbounded
    /\ MaxMessageAge = 0
    /\ TrackChannels = TRUE
    /\ ThrowAwayDMMessages = TRUE
    /\ RemoveDeletedMessages = TRUE
    /\ TrackAll
    /\ StoreIs(NewState)
    /\ now = 1
    /\ last = NoEvent
    /\ arrivals = <<>> /\ pows = EmptyMap /\ held = None /\ threads = <<>>
    /\ timers = <<>> /\ returned = None /\ FlatIdle /\ standing = <<>>
    /\ \E message \in StringsOf(MaxBytes), runeCount \in 1..MaxRuneCount :
           sending = Some([message |-> message, runeCount |-> runeCount,
                           split |-> None, sent |-> <<>>, pc |-> "StrSplit"])

SplitFrame ==
    UNCHANGED <<config, store, now, last, arrivals, pows, held, threads, timers,
                returned, flat, standing>>

\* SplitSendMessage up to its call of itself: the message is split, the
\* first part is sent.
SplitAndSend ==
    /\ sending # None /\ sending[1].pc = "StrSplit"
    /\ LET r == StrSplit(sending[1].message, sending[1].runeCount)
       IN  sending' = Some([sending[1] EXCEPT
                               !.split = Some(r),
                               !.sent = Append(@, r.split),
                               !.pc = IF r.rest # EmptyString THEN "SplitSendMessage"
                                      ELSE "return"])
    /\ SplitFrame

\* SplitSendMessage calls itself with the rest.
SendRest ==
    /\ sending # None /\ sending[1].pc = "SplitSendMessage"
    /\ sending' = Some([sending[1] EXCEPT !.message = sending[1].split[1].rest,
                                          !.split = None,
                                          !.pc = "StrSplit"])
    /\ SplitFrame

NextSplit == SplitAndSend \/ SendRest

SpecSplit == InitSplit /\ [][NextSplit]_vars

\* The runes of a string, each as its bytes, and the bytes of a sequence
\* of runes.
RunesOf(s) ==
    LET starts == RuneStarts(s)
    IN  [n \in 1..Len(starts) |->
            Slice(s, starts[n], IF n < Len(starts) THEN starts[n + 1] ELSE Len(s))]

RECURSIVE BytesOf(_)
BytesOf(runes) ==
    IF runes = <<>> THEN EmptyString ELSE Head(runes) \o BytesOf(Tail(runes))

IsNewline(rune) == rune = <<"\n">>
IsWhiteSpace(rune) == rune \in {<<" ">>, <<"\n">>, <<"C2", "A0">>}

\* The last of the first n places of runes that holds a newline, or a
\* white space when none holds a newline; 0 when none holds white space.
SplitPlace(runes, n) ==
    LET newlines == {i \in 1..n : IsNewline(runes[i])}
        spaces == {i \in 1..n : IsWhiteSpace(runes[i])}
        largest(set) == CHOOSE i \in set : \A j \in set : j <= i
    IN  IF newlines # {} THEN largest(newlines)
        ELSE IF spaces # {} THEN largest(spaces)
        ELSE 0

\* The call of StrSplit that has returned, and what it returned.
SplitReturned == sending # None /\ sending[1].split # None
SplitArgument == RunesOf(sending[1].message)
SplitFirst == RunesOf(sending[1].split[1].split)
SplitRest == RunesOf(sending[1].split[1].rest)

\* C28: StrSplit(s, n), n >= 1, returns s and the empty string when s has
\* at most n runes.  Otherwise the first part has at most n runes, the rest
\* is shorter than s, and s is the first part, the rune split at if it is
\* white space, and the rest: the split is at the last newline of the
\* first n runes, else at their last white space, else after n runes.
C28_StrSplitSplitsAtLastBreak ==
    SplitReturned =>
        LET s == SplitArgument
            n == sending[1].runeCount
            first == SplitFirst
            rest == SplitRest
            place == SplitPlace(s, n)
        IN  /\ BytesOf(first) = sending[1].split[1].split
            /\ BytesOf(rest) = sending[1].split[1].rest
            /\ IF Len(s) <= n
               THEN first = s /\ rest = <<>>
               ELSE /\ Len(first) <= n
                    /\ Len(rest) < Len(s)
                    /\ Len(sending[1].split[1].rest) < Len(sending[1].message)
                    /\ \/ s = first \o rest
                       \/ \E i \in 1..Len(s) :
                              IsWhiteSpace(s[i]) /\ s = first \o <<s[i]>> \o rest
                    /\ IF place # 0
                       THEN /\ first = SubSeq(s, 1, place - 1)
                            /\ rest = SubSeq(s, place + 1, Len(s))
                       ELSE /\ first = SubSeq(s, 1, n)
                            /\ rest = SubSeq(s, n + 1, Len(s))

\* A string of more runes than asked for was split at a no-break space
\* that came after a space and before a digit.
C28_Witness ==
    /\ SplitReturned
    /\ sending[1].message = <<"1", " ", "C2", "A0", "1">>
    /\ sending[1].runeCount = MaxRuneCount
    /\ sending[1].split[1] = [split |-> <<"1", " ">>, rest |-> <<"1">>]


(***************************************************************************)
(* SpecAge: one guild channel of a State with a max age, with or without a *)
(* max count, receiving creates that carry the time or no timestamp and    *)
(* updates that carry none, for three message ids, while time passes.      *)
(***************************************************************************)
InitAge ==
    /\ build = "part_002"
    /\ MaxChannelMessages \in {Unbounded, MaxCount}
    /\ MaxMessageAge \in 1..MaxAge
    /\ TrackChannels = TRUE
    /\ ThrowAwayDMMessages = TRUE
    /\ RemoveDeletedMessages = TRUE
    /\ TrackAll
    /\ StoreIs(Settled(GuildCreate(NewState, TestGuild)))
    /\ now = 1
    /\ last = NoEvent
    /\ AuxIdle

NextAge ==
    \/ \E id \in MessageIDs, ts \in CreatedNow :
           HandleMessageCreate(Message(id, "c1", "a", ts, EmptyTimestamp))
           /\ UNCHANGED aux
    \/ \E id \in MessageIDs :
           HandleMessageUpdate(Message(id, "c1", "a", EmptyTimestamp, EmptyTimestamp))
           /\ UNCHANGED aux
    \/ Tick /\ UNCHANGED aux

SpecAge == InitAge /\ [][NextAge]_vars

\* The places of w whose created time is known and older than t - maxAge.
TooOld(w, maxAge, t) ==
    {i \in 1..Len(w) : w[i].ParsedCreated # ZeroTime /\ w[i].ParsedCreated < t - maxAge}

Newest(places) == CHOOSE i \in places : \A j \in places : j <= i

SuppliedCreated == TimestampOf(1)
SuppliedEdited == TimestampOf(2)

InitOrder ==
    /\ build \in Builds
    /\ MaxChannelMessages = Unbounded
    /\ MaxMessageAge \in 0..MaxAge
    /\ TrackChannels = TRUE
    /\ ThrowAwayDMMessages = TRUE
    /\ RemoveDeletedMessages = TRUE
    /\ TrackAll
    /\ StoreIs(Settled(GuildCreate(NewState, TestGuild)))
    /\ now = 1
    /\ last = NoEvent
    /\ AuxIdle

EarlierMessage ==
    /\ arrivals = <<>> /\ TestWindow = <<>>
    /\ HandleMessageCreate(Message(2, "c1", "a", TimestampOf(now), EmptyTimestamp))
    /\ UNCHANGED aux

CreateArrives ==
    /\ HandleMessageCreate(Message(1, "c1", "a", SuppliedCreated, EmptyTimestamp))
    /\ Recorded("create")

UpdateArrives(content) ==
    /\ HandleMessageUpdate(Message(1, "c1", content, EmptyTimestamp, SuppliedEdited))
    /\ Recorded("update")

NextOrder ==
    \/ EarlierMessage
    \/ CreateArrives
    \/ \E content \in {EmptyStr, "b"} : UpdateArrives(content)
    \/ Tick /\ UNCHANGED aux

SpecOrder == InitOrder /\ [][NextOrder]_vars

\* The entries of the window for message 1, and the kinds of the events
\* handled for it.
EntriesOfMessage == SelectSeq(TestWindow, LAMBDA e : e.Message.ID = 1)
Arrived == {arrivals[i] : i \in 1..Len(arrivals)}

SnapshotGuildChannel(name, overwrites) ==
    [GuildChannel("c1", "g1", name) EXCEPT !.PermissionOverwrites = overwrites]

SnapshotPrivateChannel(type, name, recipients) ==
    [DMChannel("p1", name) EXCEPT !.Type = type, !.Recipients = recipients]

PrivateTypes == {"DM", "GroupDM"}

InitSnapshot ==
    /\ build \in Builds
    /\ MaxChannelMessages = Unbounded
    /\ MaxMessageAge = 0
    /\ TrackChannels = TRUE
    /\ ThrowAwayDMMessages = TRUE
    /\ RemoveDeletedMessages = TRUE
    /\ TrackAll
    /\ \E type \in PrivateTypes :
           StoreIs(Settled(HandleReady(NewState, build,
               [PrivateChannels |-> <<SnapshotPrivateChannel(type, "a", Some(<<"u1">>))>>,
                Guilds |-> <<GuildPayload("g1", "n",
                                 Some(<<SnapshotGuildChannel("a", Some(<<"o1">>))>>))>>])))
    /\ now = 1
    /\ last = NoEvent
    /\ AuxIdle

NextSnapshot ==
    \/ \E name \in ChannelNames, overwrites \in {None, Some(<<>>), Some(<<"o2">>)} :
           HandleChannelUpdate(SnapshotGuildChannel(name, overwrites))
           /\ UNCHANGED aux
    \/ \E name \in ChannelNames, recipients \in {None, Some(<<"u2">>)} :
           HandleChannelUpdate(
               SnapshotPrivateChannel(chanObjs[StateChannel(Store, "p1")].Channel.Type,
                                      name, recipients))
           /\ UNCHANGED aux

SpecSnapshot == InitSnapshot /\ [][NextSnapshot]_vars

\* The snapshot an update is to leave: the new one, with the old overwrite
\* list when it brings none and, for a private channel, the old recipient
\* list when it brings none.
MergedSnapshot(old, new) ==
    [new EXCEPT
        !.PermissionOverwrites = IF @ = None THEN old.PermissionOverwrites ELSE @,
        !.Recipients = IF @ = None /\ new.IsPrivate THEN old.Recipients ELSE @]

\* C33 as claimed: a channel update leaves the snapshot of the update, with
\* the overwrite list the channel had when the update has none and, for a
\* private channel, the recipient list it had when the update has none.
C33_UpdateKeepsOmittedLists ==
    [][(last'.kind = "ChannelUpdate" /\ last'.hit /\ TrackChannels)
          => LET id == last'.payload[1].ID
                 old == chanObjs[MapGet(channels, id)].Channel
                 new == chanObjs'[MapGet(channels', id)].Channel
             IN  new = MergedSnapshot(old, last'.payload[1])]_vars


(***************************************************************************)
(* SpecFill: guild updates for the known guild g1, which has a role, a     *)
(* voice state and the channel c1; an update brings each of the role list, *)
(* the channel list and the voice state list, or omits it.  Messages       *)
(* arrive at c1 and voice states change in between.                        *)
(***************************************************************************)
FilledGuildAtStart ==
    [ToggledGuild EXCEPT !.VoiceStates = Some(<<VoiceState("g1", "u1", "c1")>>),
                         !.OwnerID = "u1"]

FillPayloads ==
    {[GuildPayload("g1", name, chans) EXCEPT
         !.Roles = roles, !.VoiceStates = voice, !.OwnerID = "u2"] :
        name \in {"n", "m"},
        chans \in {None, Some(<<GuildChannel("c1", "g1", "b")>>),
                   Some(<<GuildChannel("c2", "g1", "a")>>)},
        roles \in {None, Some(<<Role("r2", {})>>)},
        voice \in {None, Some(<<>>)}}

InitFill ==
    /\ build \in Builds
    /\ MaxChannelMessages = Unbounded
    /\ MaxMessageAge = 0
    /\ TrackChannels = TRUE
    /\ ThrowAwayDMMessages = TRUE
    /\ RemoveDeletedMessages = TRUE
    /\ TrackAll
    /\ StoreIs(Settled(GuildCreate(NewState, FilledGuildAtStart)))
    /\ now = 1
    /\ last = NoEvent
    /\ AuxIdle

NextFill ==
    \/ \E g \in FillPayloads : HandleGuildUpdate(g) /\ UNCHANGED aux
    \/ HandleMessageCreate(Message(1, "c1", "a", EmptyTimestamp, EmptyTimestamp))
       /\ UNCHANGED aux
    \/ HandleVoiceStateUpdate(VoiceState("g1", "u2", "c1")) /\ UNCHANGED aux

SpecFill == InitFill /\ [][NextFill]_vars

\* The channels of a guild object, by id, as the objects they are.
ChannelsOf(gObj, cObjs) == [k \in DOMAIN gObj.Channels |-> cObjs[gObj.Channels[k]]]

\* C35: a guild update for a known guild that has no role list, no channel
\* list or no voice state list leaves the roles, the channels with their
\* windows, or the voice states as they were; the lists it has and the
\* other fields of the guild are those of the update.
C35_GuildUpdateKeepsOmittedLists ==
    [][(last'.kind = "GuildUpdate" /\ last'.hit)
          => LET guild == last'.payload[1]
                 old == guildObjs[MapGet(Guilds, guild.ID)]
                 new == guildObjs'[MapGet(Guilds', guild.ID)]
             IN  /\ new.Guild.Roles = IF guild.Roles = None THEN old.Guild.Roles
                                      ELSE guild.Roles
                 /\ new.Guild.VoiceStates =
                        IF guild.VoiceStates = None THEN old.Guild.VoiceStates
                        ELSE guild.VoiceStates
                 /\ guild.Channels = None
                        => ChannelsOf(new, chanObjs') = ChannelsOf(old, chanObjs)
                 /\ new.Guild.Name = guild.Name
                 /\ new.Guild.OwnerID = guild.OwnerID]_vars

\* An update with none of the three lists and a new name reached the guild
\* while it had its role, two voice states and a message in c1.
C35_Witness ==
    /\ last.kind = "GuildUpdate" /\ last.hit
    /\ last.payload[1].Roles = None
    /\ last.payload[1].Channels = None
    /\ last.payload[1].VoiceStates = None
    /\ last.payload[1].Name = "m"
    /\ guildObjs[StateGuild(Store, "g1")].Guild.Name = "m"
    /\ guildObjs[StateGuild(Store, "g1")].Guild.Roles = Some(<<Role("r1", {})>>)
    /\ Len(ListOf(guildObjs[StateGuild(Store, "g1")].Guild.VoiceStates)) = 2
    /\ Len(Window(Store, "c1")) = 1


(***************************************************************************)
(* SpecRoles: the role list of one guild under role creates, updates and   *)
(* deletes, in either build.  arrivals records the role events in the      *)
(* order they were handled; the roles the guild was created with are       *)
(* recorded as the adds that came first.                                   *)
(***************************************************************************)
RoleIDs == {"r1", "r2", "r3"}

RoleAdded(role) == [op |-> "add", role |-> role]
RoleRemoved(id) == [op |-> "remove", role |-> Role(id, {})]

StartRoleEvents == {<<>>, <<RoleAdded(Role("r2", {})), RoleAdded(Role("r1", {}))>>}

InitRoles ==
    /\ build \in Builds
    /\ MaxChannelMessages = Unbounded
    /\ MaxMessageAge = 0
    /\ TrackChannels = TRUE
    /\ ThrowAwayDMMessages = TRUE
    /\ RemoveDeletedMessages = TRUE
    /\ TrackAll
    /\ arrivals \in StartRoleEvents
    /\ StoreIs(Settled(GuildCreate(NewState,
            [TestGuild EXCEPT !.Roles =
                Some([k \in 1..Len(arrivals) |-> arrivals[k].role])])))
    /\ now = 1
    /\ last = NoEvent
    /\ pows = EmptyMap /\ held = None /\ threads = <<>>
    /\ timers = <<>> /\ returned = None /\ DirectIdle

NextRoles ==
    \/ \E id \in RoleIDs :
           /\ HandleGuildRoleAddUpdate("GuildRoleCreate", "g1", Role(id, {}))
           /\ Recorded(RoleAdded(Role(id, {})))
    \/ \E id \in RoleIDs :
           /\ HandleGuildRoleAddUpdate("GuildRoleUpdate", "g1", Role(id, PermissionAll))
           /\ Recorded(RoleAdded(Role(id, PermissionAll)))
    \/ \E id \in RoleIDs :
           /\ HandleGuildRoleDelete("g1", id)
           /\ Recorded(RoleRemoved(id))

SpecRoles == InitRoles /\ [][NextRoles]_vars

TestRoles == ListOf(guildObjs[StateGuild(Store, "g1")].Guild.Roles)

\* The events about one role id, as indices into arrivals.
EventsOf(id) == {k \in 1..Len(arrivals) : arrivals[k].role.ID = id}
LastEventOf(id) == CHOOSE k \in EventsOf(id) : \A j \in EventsOf(id) : j <= k

\* The role is held: the last event about it is an add.
RoleHeld(id) == EventsOf(id) # {} /\ arrivals[LastEventOf(id)].op = "add"

\* The add that inserted the role now held: the first add after the last
\* remove of the id.
InsertionOf(id) ==
    CHOOSE k \in EventsOf(id) :
        /\ \A j \in EventsOf(id) : j >= k => arrivals[j].op = "add"
        /\ \A j \in EventsOf(id) : j < k =>
               \E r \in EventsOf(id) : j <= r /\ r < k /\ arrivals[r].op = "remove"

\* C36: after any sequence of role adds, updates and removes the list holds
\* one role per id that was added and not removed since, in the order in
\* which these roles were inserted, each with the data of its last add or
\* update.
C36_RoleListKeepsInsertionOrder ==
    /\ \A i, j \in 1..Len(TestRoles) : TestRoles[i].ID = TestRoles[j].ID => i = j
    /\ {TestRoles[i].ID : i \in 1..Len(TestRoles)} = {id \in RoleIDs : RoleHeld(id)}
    /\ \A i, j \in 1..Len(TestRoles) :
           i < j => InsertionOf(TestRoles[i].ID) < InsertionOf(TestRoles[j].ID)
    /\ \A i \in 1..Len(TestRoles) :
           TestRoles[i] = arrivals[LastEventOf(TestRoles[i].ID)].role

\* r1 was updated after r2 was added and stays first; the remove of r3,
\* which is not held, changed nothing.
C36_Witness ==
    /\ Len(arrivals) = MaxArrivals
    /\ arrivals[MaxArrivals - 1] = RoleAdded(Role("r1", PermissionAll))
    /\ arrivals[MaxArrivals] = RoleRemoved("r3")
    /\ TestRoles = <<Role("r1", PermissionAll), Role("r2", {})>>


(***************************************************************************)
(* SpecMerge: membership and presence updates of the one member u1, in the *)
(* guild state of either build and in the two versions of the flat         *)
(* MemberState.  arrivals records the updates in the order they were       *)
(* applied, so that the same updates can be replayed in another order.     *)
(***************************************************************************)
MaxUpdates == 3

MergeMembers == {MemberData(n, "a", j, r) : n \in Nicks, j \in JoinTimes, r \in RoleLists}
MergePresences == {PresenceData(n, "a", st, None) : n \in Nicks, st \in PresenceStatuses}

MembershipArrived(member) == [kind |-> "membership", data |-> member]
PresenceArrived(presence) == [kind |-> "presence", data |-> presence]

MergeFrame == UNCHANGED <<config, store, now, pows, held, threads, timers, returned,
                          memberVersion, sending, standing>>

MembershipUpdateArrives(member) ==
    /\ Len(arrivals) < MaxUpdates
    /\ arrivals' = Append(arrivals, MembershipArrived(member))
    /\ \/ /\ memberVersion = "guildstate.go"
          /\ HandleGuildMemberAddUpdate("GuildMemberUpdate", "g1", member)
          /\ UNCHANGED <<pows, held, threads, calls>>
       \/ /\ memberVersion \in MemberStateVersions
          /\ memberState' = UpdateMember(memberState, member)
          /\ last' = MethodCall("UpdateMember", member)
          /\ MergeFrame

PresenceUpdateArrives(presence) ==
    /\ Len(arrivals) < MaxUpdates
    /\ arrivals' = Append(arrivals, PresenceArrived(presence))
    /\ \/ /\ memberVersion = "guildstate.go"
          /\ HandlePresenceUpdate("g1", presence)
          /\ UNCHANGED <<pows, held, threads, returned, direct>>
       \/ /\ memberVersion \in MemberStateVersions
          /\ memberState' = UpdatePresence(memberVersion, memberState, presence)
          /\ last' = MethodCall("UpdatePresence", presence)
          /\ MergeFrame

NextMerge ==
    \/ \E member \in MergeMembers : MembershipUpdateArrives(member)
    \/ \E presence \in MergePresences : PresenceUpdateArrives(presence)

SpecMerge == InitMember /\ [][NextMerge]_vars

\* The guild state and the MemberState after the first k updates of arr,
\* applied to the guild and the MemberState SpecMerge starts with.
RECURSIVE ReplayGuild(_, _)
ReplayGuild(arr, k) ==
    IF k = 0 THEN Settled(GuildCreate(NewState, TestGuild))
    ELSE LET s == ReplayGuild(arr, k - 1)
         IN  IF arr[k].kind = "membership"
             THEN MemberAddUpdate(s, StateGuild(s, "g1"), arr[k].data)
             ELSE PresenceAddUpdate(s, StateGuild(s, "g1"), arr[k].data)

RECURSIVE ReplayMember(_, _, _)
ReplayMember(version, arr, k) ==
    IF k = 0 THEN ZeroMemberState(version)
    ELSE LET m == ReplayMember(version, arr, k - 1)
         IN  IF arr[k].kind = "membership" THEN UpdateMember(m, arr[k].data)
             ELSE UpdatePresence(version, m, arr[k].data)

\* arr with its last two updates in the other order.
LastTwoSwapped(arr) ==
    [k \in 1..Len(arr) |-> IF k = Len(arr) THEN arr[Len(arr) - 1]
                           ELSE IF k = Len(arr) - 1 THEN arr[Len(arr)]
                           ELSE arr[k]]

\* The nickname, roles, join time and presence status stored of u1.
MergedFields(membership, status) ==
    [Nick |-> membership[1].Nick, Roles |-> membership[1].Roles,
     JoinedAt |-> membership[1].JoinedAt, Status |-> status[1]]

OneAfterOther ==
    /\ Len(arrivals) >= 2
    /\ arrivals[Len(arrivals)].kind # arrivals[Len(arrivals) - 1].kind

\* C39: when a membership update and a presence update of u1 have been
\* applied one after the other, u1 has one entry whose nickname, roles,
\* join time and presence status are those the two updates leave when they
\* are applied in the other order.
C39_MembershipAndPresenceCommute ==
    OneAfterOther =>
        LET other == LastTwoSwapped(arrivals)
            guild == ReplayGuild(other, Len(other))
            member == ReplayMember(memberVersion, other, Len(other))
        IN  /\ MembershipBefore # None /\ StatusBefore # None
            /\ MergedFields(MembershipBefore, StatusBefore) =
                   MergedFields(StoredMembership(memberVersion, guild.guildObjs,
                                                 guild.Guilds, member),
                                StoredStatus(memberVersion, guild.guildObjs,
                                             guild.Guilds, member))

\* A presence with a nickname came first and made the entry; the
\* membership update that followed filled in the rest and the entry has the
\* membership's empty nickname and the presence's status.
C39_Witness ==
    /\ Len(arrivals) = 2
    /\ arrivals[1] = PresenceArrived(PresenceData("n1", "a", "online", None))
    /\ arrivals[2] = MembershipArrived(MemberData(EmptyStr, "a", "t1", Some(<<"r1">>)))
    /\ MembershipBefore # None /\ MembershipBefore[1].Nick = EmptyStr
    /\ MembershipBefore[1].Roles = Some(<<"r1">>)
    /\ StatusBefore = Some("online")


(***************************************************************************)
(* SpecDelete: one guild channel under message creates and deletes, single *)
(* and bulk, in either build and with RemoveDeletedMessages set or not.    *)
(***************************************************************************)
BulkIDs == {<<1>>, <<1, 2>>, <<3, 2>>}

InitDelete ==
    /\ build \in Builds
    /\ MaxChannelMessages = Unbounded
    /\ MaxMessageAge = 0
    /\ TrackChannels = TRUE
    /\ ThrowAwayDMMessages = TRUE
    /\ RemoveDeletedMessages \in BOOLEAN
    /\ StoreIs(GuildCreate(NewState, TestGuild))
    /\ now = 1
    /\ last = NoEvent
    /\ AuxIdle
    /\ TrackAll

NextDelete ==
    \/ \E id \in MessageIDs :
           HandleMessageCreate(Message(id, "c1", "a", EmptyTimestamp, EmptyTimestamp))
           /\ UNCHANGED aux
    \/ \E id \in MessageIDs : HandleMessageDelete("c1", id) /\ UNCHANGED aux
    \/ \E ids \in BulkIDs : HandleMessageDeleteBulk("c1", ids) /\ UNCHANGED aux

SpecDelete == InitDelete /\ [][NextDelete]_vars

DeleteKinds == {"MessageDelete", "MessageDeleteBulk"}

\* The window a delete of ids is to leave: without the named messages when
\* remove is set, with their Deleted flag set when it is not.
AfterDelete(msgs, ids, remove) ==
    LET named(m) == \E i \in 1..Len(ids) : ids[i] = m.Message.ID
    IN  IF remove
        THEN SelectSeq(msgs, LAMBDA m : ~named(m))
        ELSE [i \in 1..Len(msgs) |->
                 IF named(msgs[i]) THEN [msgs[i] EXCEPT !.Deleted = TRUE] ELSE msgs[i]]

\* C5 as claimed: a message delete, single or bulk, takes each named message
\* out of the window when RemoveDeletedMessages is set and leaves it in
\* place with its Deleted flag set when it is not; the other entries and
\* their order stay.
C5_DeleteRemovesOrMarks ==
    [][last'.kind \in DeleteKinds
          => TestWindow' = AfterDelete(TestWindow, last'.ids, RemoveDeletedMessages)]_vars


(***************************************************************************)
(* SpecPatch: one message of one guild channel, created whole or by a      *)
(* partial update, and then updated by payloads that carry one field, all  *)
(* fields but one, all fields or none.                                     *)
(***************************************************************************)
MessageFields ==
    {"Content", "Timestamp", "EditedTimestamp", "Mentions", "Embeds", "Attachments",
     "Author"}

WholeMessage ==
    [ID |-> 1, ChannelID |-> "c1", Content |-> "a",
     Timestamp |-> TimestampOf(1), EditedTimestamp |-> EmptyTimestamp,
     Mentions |-> Some(<<"u1">>), Embeds |-> Some(<<"e1">>),
     Attachments |-> Some(<<"f1">>), Author |-> Some("u1")]

\* The update that carries the fields of set, its timestamps being ts.
PartialMessage(set, ts) ==
    [ID |-> 1, ChannelID |-> "c1",
     Content |-> IF "Content" \in set THEN "b" ELSE EmptyStr,
     Timestamp |-> IF "Timestamp" \in set THEN ts ELSE EmptyTimestamp,
     EditedTimestamp |-> IF "EditedTimestamp" \in set THEN ts ELSE EmptyTimestamp,
     Mentions |-> IF "Mentions" \in set THEN Some(<<>>) ELSE None,
     Embeds |-> IF "Embeds" \in set THEN Some(<<"e2">>) ELSE None,
     Attachments |-> IF "Attachments" \in set THEN Some(<<"f2">>) ELSE None,
     Author |-> IF "Author" \in set THEN Some("u2") ELSE None]

PartialMessages ==
    {PartialMessage(set, ts) :
        set \in {{}, MessageFields} \cup {{f} : f \in MessageFields}
                    \cup {MessageFields \ {f} : f \in MessageFields},
        ts \in {BadTimestamp, TimestampOf(2)}}

InitPatch ==
    /\ build \in Builds
    /\ MaxChannelMessages = Unbounded
    /\ MaxMessageAge = 0
    /\ TrackChannels = TRUE
    /\ ThrowAwayDMMessages = TRUE
    /\ RemoveDeletedMessages = TRUE
    /\ StoreIs(GuildCreate(NewState, TestGuild))
    /\ now = 2
    /\ last = NoEvent
    /\ AuxIdle
    /\ TrackAll

NextPatch ==
    \/ HandleMessageCreate(WholeMessage) /\ UNCHANGED aux
    \/ \E m \in PartialMessages : HandleMessageUpdate(m) /\ UNCHANGED aux

SpecPatch == InitPatch /\ [][NextPatch]_vars

\* What field f of the stored message is to be once msg has been applied.
Patched(f, old, msg, empty) == IF msg[f] = empty THEN old[f] ELSE msg[f]

\* C6: an add-or-update for a message the window holds overwrites the
\* stored fields that are non-empty in the incoming message and leaves the
\* others as they were: an empty content, created or edited timestamp, nil
\* mentions, embeds, attachments or author keeps the stored field, and an
\* empty timestamp keeps the parsed time cached for it.
C6_UpdatePatchesNonEmptyFieldsOnly ==
    [][(last'.kind \in AddUpdateKinds /\ last'.hit)
       => LET msg == last'.payload[1]
              i == MessageIndex(TestWindow, msg.ID)
              old == TestWindow[i]
              new == TestWindow'[i]
          IN  /\ Len(TestWindow') = Len(TestWindow)
              /\ new.Message.ID = old.Message.ID
              /\ new.Deleted = old.Deleted
              /\ \A f \in {"Content"} :
                     new.Message[f] = Patched(f, old.Message, msg, EmptyStr)
              /\ \A f \in {"Timestamp", "EditedTimestamp"} :
                     new.Message[f] = Patched(f, old.Message, msg, EmptyTimestamp)
              /\ \A f \in {"Mentions", "Embeds", "Attachments", "Author"} :
                     new.Message[f] = Patched(f, old.Message, msg, None)
              /\ msg.Timestamp = EmptyTimestamp => new.ParsedCreated = old.ParsedCreated
              /\ msg.EditedTimestamp = EmptyTimestamp
                     => new.ParsedEdited = old.ParsedEdited]_vars

\* An update carrying only an author reached a message whose other fields
\* were all set.
C6_Witness ==
    /\ last.kind = "MessageUpdate" /\ last.hit
    /\ last.payload[1] = PartialMessage({"Author"}, TimestampOf(2))
    /\ Len(TestWindow) = 1
    /\ TestWindow[1].Message.Content # EmptyStr
    /\ TestWindow[1].Message.Mentions # None
    /\ TestWindow[1].Message.EditedTimestamp # EmptyTimestamp
    /\ TestWindow[1].ParsedCreated # ZeroTime
    /\ TestWindow[1].Message.Author = Some("u2")


(***************************************************************************)
(* SpecCopy: a caller takes a copy of the guild channel c1 and changes it, *)
(* while channel updates change the cached channel.  The overwrite list of *)
(* a channel is a list of pointers: addresses into pows.                   *)
(***************************************************************************)
MaxAllow == 2
Allows == 1..MaxAllow

Overwrite(id, allow) == [ID |-> id, Allow |-> allow]

\* The channel with every pointer of its overwrite list followed.
Resolved(channel, heap) ==
    [channel EXCEPT !.PermissionOverwrites =
        IF @ = None THEN None ELSE Some([i \in 1..Len(@[1]) |-> heap[@[1][i]]])]

CachedChannel == chanObjs[StateChannel(Store, "c1")].Channel

\* The overwrite objects the cached channels and the held copy lead to.
LivePows(objs, copy) ==
    UNION ({{ListOf(objs[a].Channel.PermissionOverwrites)[i] :
               i \in 1..Len(ListOf(objs[a].Channel.PermissionOverwrites))} :
            a \in DOMAIN objs}
           \cup {{ListOf(copy[j].channel.PermissionOverwrites)[i] :
                     i \in 1..Len(ListOf(copy[j].channel.PermissionOverwrites))} :
                 j \in 1..Len(copy)})

InitCopy ==
    /\ build \in Builds
    /\ MaxChannelMessages = Unbounded
    /\ MaxMessageAge = 0
    /\ TrackChannels = TRUE
    /\ ThrowAwayDMMessages = TRUE
    /\ RemoveDeletedMessages = TRUE
    /\ StoreIs(GuildCreate(NewState,
           GuildPayload("g1", "n",
               Some(<<[GuildChannel("c1", "g1", "a") EXCEPT
                          !.PermissionOverwrites = Some(<<1>>)]>>))))
    /\ pows = MapPut(EmptyMap, 1, Overwrite("r1", 1))
    /\ held = None
    /\ now = 1
    /\ last = NoEvent
    /\ arrivals = <<>>
    /\ threads = <<>>
    /\ timers = <<>>
    /\ returned = None /\ DirectIdle
    /\ TrackAll

\* ChannelState.Copy, called by a user of the cache.
CopyChannel(deep) ==
    /\ held' = Some([deep |-> deep, channel |-> copyChannel(CachedChannel, deep)])
    /\ last' = Event("Copy", "c1", deep)
    /\ pows' = [a \in LivePows(chanObjs, held') |-> pows[a]]
    /\ UNCHANGED <<config, store, now, arrivals, threads, calls>>

\* The caller writes to an element of the overwrite list of its copy.
WriteCopyOverwrite(i, allow) ==
    /\ held # None
    /\ i \in 1..Len(ListOf(held[1].channel.PermissionOverwrites))
    /\ pows' = [pows EXCEPT ![ListOf(held[1].channel.PermissionOverwrites)[i]].Allow = allow]
    /\ last' = Event("WriteCopyOverwrite", "c1", <<i, allow>>)
    /\ UNCHANGED <<config, store, now, arrivals, held, threads, calls>>

\* The caller writes to a field of its copy.
WriteCopyName(name) ==
    /\ held # None
    /\ held' = Some([held[1] EXCEPT !.channel.Name = name])
    /\ last' = Event("WriteCopyName", "c1", name)
    /\ UNCHANGED <<config, store, now, arrivals, pows, threads, calls>>

\* A channel update for c1: the decoded event brings overwrite objects of
\* its own, or no overwrite list.
CachedChannelUpdate(name, allows) ==
    LET a == FreshAddr(pows)
        channel == [GuildChannel("c1", "g1", name) EXCEPT
                       !.PermissionOverwrites =
                           IF allows = None THEN None ELSE Some(<<a>>)]
        decoded == IF allows = None THEN pows
                   ELSE MapPut(pows, a, Overwrite("r1", allows[1]))
    IN  /\ HandleChannelUpdate(channel)
        /\ pows' = [x \in LivePows(chanObjs', held) |-> decoded[x]]
        /\ UNCHANGED <<arrivals, held, threads, calls>>

NextCopy ==
    \/ \E deep \in BOOLEAN : CopyChannel(deep)
    \/ \E i \in {1}, allow \in Allows : WriteCopyOverwrite(i, allow)
    \/ \E name \in ChannelNames : WriteCopyName(name)
    \/ \E name \in ChannelNames, allows \in {None} \cup {Some(v) : v \in Allows} :
           CachedChannelUpdate(name, allows)

SpecCopy == InitCopy /\ [][NextCopy]_vars

\* C7 as claimed, for a channel: while a caller holds a deep copy, nothing
\* it writes to the copy, an element of its overwrite list included,
\* changes the cached channel, and no later update of the cached channel
\* changes the copy.
C7_DeepCopyIsIndependent ==
    [][(held # None /\ held' # None /\ held[1].deep /\ held'[1].deep)
       => /\ last'.kind \in {"WriteCopyOverwrite", "WriteCopyName"}
                => Resolved(CachedChannel, pows)' = Resolved(CachedChannel, pows)
          /\ last'.kind = "ChannelUpdate"
                => Resolved(held[1].channel, pows)'
                       = Resolved(held[1].channel, pows)]_vars


(***************************************************************************)
(* SpecConc: handlers of channel create and channel update events for the  *)
(* guild g1 run concurrently with each other and with GuildRemove.  A step *)
(* of a handler is one critical section: what it does between taking a     *)
(* lock and releasing it.  Both events run the same code.                  *)
(***************************************************************************)
NumWorkers == 2
Workers == 1..NumWorkers

Idle == [pc |-> "idle", evt |-> None, g |-> NilAddr, c |-> NilAddr]

\* The store s and the handlers th as the next state, the pointers the
\* handlers hold being kept alive and renamed with the objects.
SetStoreWith(s, th) ==
    LET rootG == [w \in DOMAIN th |-> th[w].g]
        rootC == [w \in DOMAIN th |-> th[w].c]
        n == Normalise(Collect(s, Range(rootG), Range(rootC)), rootG, rootC)
    IN  /\ Guilds' = n.store.Guilds
        /\ channels' = n.store.channels
        /\ PrivateChannels' = n.store.PrivateChannels
        /\ guildObjs' = n.store.guildObjs
        /\ chanObjs' = n.store.chanObjs
        /\ panicked' = n.store.panicked
        /\ threads' = [w \in DOMAIN th |->
                          [th[w] EXCEPT !.g = n.rootG[w], !.c = n.rootC[w]]]

\* The handler is called: part_002's State.ChannelAddUpdate looks the
\* channel up in the index, state.go's case looks the guild up.
LookUp(w, channel) ==
    /\ threads[w].pc = "idle"
    /\ SetStoreWith(Store,
           [threads EXCEPT ![w] =
               IF build = "part_002"
               THEN IF StateChannel(Store, channel.ID) # NilAddr
                    THEN [pc |-> "update", evt |-> Some(channel), g |-> NilAddr,
                          c |-> StateChannel(Store, channel.ID)]
                    ELSE [pc |-> "guild", evt |-> Some(channel), g |-> NilAddr,
                          c |-> NilAddr]
               ELSE IF StateGuild(Store, channel.GuildID) # NilAddr
                    THEN [pc |-> "add", evt |-> Some(channel),
                          g |-> StateGuild(Store, channel.GuildID), c |-> NilAddr]
                    ELSE Idle])

\* part_002: c.Update(true, newChannel), and the handler returns.
UpdateFound(w) ==
    /\ threads[w].pc = "update"
    /\ SetStoreWith([Store EXCEPT !.chanObjs[threads[w].c] =
                        ChannelUpdate(@, threads[w].evt[1])],
                    [threads EXCEPT ![w] = Idle])

\* part_002: g := s.Guild(true, newChannel.GuildID)
LookUpGuild(w) ==
    /\ threads[w].pc = "guild"
    /\ SetStoreWith(Store,
           [threads EXCEPT ![w] =
               IF StateGuild(Store, threads[w].evt[1].GuildID) # NilAddr
               THEN [@ EXCEPT !.pc = "add",
                              !.g = StateGuild(Store, threads[w].evt[1].GuildID)]
               ELSE [@ EXCEPT !.pc = "index"]])

\* c = g.ChannelAddUpdate(true, newChannel)
AddToGuild(w) ==
    /\ threads[w].pc = "add"
    /\ LET r == GuildChannelAddUpdate(Store, threads[w].g, threads[w].evt[1])
       IN  SetStoreWith(r.store,
               [threads EXCEPT ![w] = [@ EXCEPT !.pc = "index", !.g = NilAddr,
                                                !.c = r.ret]])

\* s.Lock(); s.channels[newChannel.ID] = c; s.Unlock()
EnterInIndex(w) ==
    /\ threads[w].pc = "index"
    /\ SetStoreWith([Store EXCEPT !.channels =
                        MapPut(@, threads[w].evt[1].ID, threads[w].c)],
                    [threads EXCEPT ![w] = Idle])

\* State.GuildRemove: the whole of it runs under the write lock of State.
RemoveGuild(id) ==
    /\ StateGuild(Store, id) # NilAddr
    /\ SetStoreWith(GuildRemove(Store, id), threads)

InitConc ==
    /\ build \in Builds
    /\ MaxChannelMessages = Unbounded
    /\ MaxMessageAge = 0
    /\ TrackChannels = TRUE
    /\ ThrowAwayDMMessages = TRUE
    /\ RemoveDeletedMessages = TRUE
    /\ StoreIs(GuildCreate(NewState, TestGuild))
    /\ now = 1
    /\ last = NoEvent
    /\ arrivals = <<>>
    /\ pows = EmptyMap
    /\ held = None
    /\ threads = [w \in Workers |-> Idle]
    /\ timers = <<>>
    /\ returned = None /\ DirectIdle
    /\ TrackAll

\* What every step of SpecConc leaves alone; no step follows a panic.
ConcFrame == ~panicked /\ UNCHANGED <<config, now, last, arrivals, pows, held, calls>>

NextConc ==
    \/ \E w \in Workers, channel \in GuildChannels : LookUp(w, channel) /\ ConcFrame
    \/ \E w \in Workers : UpdateFound(w) /\ ConcFrame
    \/ \E w \in Workers : LookUpGuild(w) /\ ConcFrame
    \/ \E w \in Workers : AddToGuild(w) /\ ConcFrame
    \/ \E w \in Workers : EnterInIndex(w) /\ ConcFrame
    \/ RemoveGuild("g1") /\ ConcFrame

SpecConc == InitConc /\ [][NextConc]_vars

Quiescent == \A w \in Workers : threads[w].pc = "idle"

\* C10 as claimed: once GuildRemove(g1) has returned and the channel
\* events dispatched concurrently with it have finished, the guild is not
\* found and its channel c1 is not found in the index.
C10_RemovedGuildLeavesNoChannel ==
    (Quiescent /\ StateGuild(Store, "g1") = NilAddr)
        => StateChannel(Store, "c1") = NilAddr

\* The guild-channel entries of the index: the ids whose entry is a channel
\* state that was made for a guild (NewChannelState's guild is not nil).
IndexedGuildChannels ==
    {id \in DOMAIN channels :
        channels[id] # NilAddr /\ chanObjs[channels[id]].Guild # NilAddr}

\* The entry of the index under id is the channel state that the guild
\* state registered for the channel's guild keeps under the same id.
PointsIntoRegisteredGuild(id) ==
    LET g == StateGuild(Store, chanObjs[channels[id]].Channel.GuildID)
    IN  /\ g # NilAddr
        /\ MapGet(guildObjs[g].Channels, id) = channels[id]

\* C38 as claimed: whenever no handler is in progress, every guild-channel
\* entry of the global channel index is the identical channel state stored
\* under the same id in the channel map of the guild state currently
\* registered for its guild.
C38_IndexPointsIntoRegisteredGuild ==
    Quiescent => \A id \in IndexedGuildChannels : PointsIntoRegisteredGuild(id)

(***************************************************************************)
(* SpecLocks: guild create events and message create events for two guilds *)
(* handled by concurrent goroutines, one step per lock operation.  What a  *)
(* goroutine holds and what it waits for follows from where it stands: the *)
(* State's lock is held for writing in GuildCreate and for reading in      *)
(* State.Channel, a guild's lock for reading while GuildCreate collects    *)
(* the old windows and for writing in MessageAddUpdate.  GuildCreate's     *)
(* changes are applied in its last step.                                   *)
(***************************************************************************)
LockedGuild(i) ==
    IF i = 1 THEN GuildPayload("g1", "n", Some(<<GuildChannel("c1", "g1", "a")>>))
    ELSE GuildPayload("g2", "n", Some(<<GuildChannel("c2", "g2", "a")>>))

LockEvents ==
    {[kind |-> "GuildCreate", guild |-> LockedGuild(i).ID, data |-> LockedGuild(i)] :
        i \in 1..2}
    \cup {[kind |-> "MessageCreate", guild |-> "g1",
           data |-> Message(1, "c1", "a", EmptyTimestamp, EmptyTimestamp)],
          [kind |-> "MessageCreate", guild |-> "g2",
           data |-> Message(1, "c2", "a", EmptyTimestamp, EmptyTimestamp)]}

StateLock == [kind |-> "state", g |-> NilAddr]
GuildLock(a) == [kind |-> "guild", g |-> a]

\* The lock a goroutine is about to take, and the lock it took last and
\* holds.
Wants(th) ==
    IF th.pc \in {"s.Lock", "s.Lock again", "ready s.Lock", "ready s.Lock again",
                  "remove s.Lock"}
    THEN Some([lock |-> StateLock, mode |-> "w"])
    ELSE IF th.pc \in {"s.RLock", "s.RLock guild"}
         THEN Some([lock |-> StateLock, mode |-> "r"])
    ELSE IF th.pc \in {"existing.RLock", "ready existing.RLock", "g.RLock"}
         THEN Some([lock |-> GuildLock(th.g), mode |-> "r"])
    ELSE IF th.pc \in {"guild.Lock", "g.Lock", "g.Lock event", "ready g.Lock",
                       "timer g.Lock"}
         THEN Some([lock |-> GuildLock(th.g), mode |-> "w"])
    ELSE None

Holds(th) ==
    IF th.pc \in {"existing", "build", "ready", "ready build", "ready g.Lock", "remove"}
    THEN Some([lock |-> StateLock, mode |-> "w"])
    ELSE IF th.pc \in {"lookup", "lookup guild"}
         THEN Some([lock |-> StateLock, mode |-> "r"])
    ELSE IF th.pc \in {"collect", "ready collect", "member"}
         THEN Some([lock |-> GuildLock(th.g), mode |-> "r"])
    ELSE IF th.pc \in {"add", "permissions", "in guild", "ready update", "evict"}
         THEN Some([lock |-> GuildLock(th.g), mode |-> "w"])
    ELSE None

\* HandleReady of state.go taking the State's lock again before it releases
\* the read lock of the existing guild.
HeldLocksReleasedLate(th) ==
    (IF Holds(th) # None THEN {Holds(th)[1]} ELSE {})
    \cup (IF th.pc = "ready update" THEN {[lock |-> StateLock, mode |-> "w"]} ELSE {})
    \cup (IF th.pc = "ready s.Lock again"
          THEN {[lock |-> GuildLock(th.g), mode |-> "r"]} ELSE {})

\* Every lock a goroutine holds: part_002's HandleReady keeps the State's
\* lock while GuildState.GuildUpdate holds the guild's.
HeldLocks(th) ==
    (IF Holds(th) # None THEN {Holds(th)[1]} ELSE {})
    \cup (IF th.pc = "ready update" THEN {[lock |-> StateLock, mode |-> "w"]} ELSE {})

\* sync.RWMutex: a writer excludes everyone, readers exclude writers.
BlockedBy(w, v) ==
    /\ w # v
    /\ Wants(threads[w]) # None
    /\ \E h \in HeldLocks(threads[v]) :
           /\ Wants(threads[w])[1].lock = h.lock
           /\ "w" \in {Wants(threads[w])[1].mode, h.mode}

Acquires(w) == \A v \in DOMAIN threads : ~BlockedBy(w, v)

\* HandleEvent is called with an event.
Dispatch(w, e) ==
    /\ threads[w].pc = "idle"
    /\ SetStoreWith(Store,
           [threads EXCEPT ![w] =
               [pc |-> IF e.kind = "GuildCreate" THEN "s.Lock" ELSE "s.RLock",
                evt |-> Some(e), g |-> NilAddr, c |-> NilAddr]])

\* GuildCreate: s.Lock()
LockState(w) ==
    /\ threads[w].pc = "s.Lock"
    /\ Acquires(w)
    /\ SetStoreWith(Store, [threads EXCEPT ![w].pc = "existing"])

\* existing := s.Guild(false, g.ID); s.Unlock() when there is one
FindExisting(w) ==
    /\ threads[w].pc = "existing"
    /\ LET existing == StateGuild(Store, threads[w].evt[1].data.ID)
       IN  SetStoreWith(Store,
               [threads EXCEPT ![w] =
                   IF existing = NilAddr THEN [@ EXCEPT !.pc = "build"]
                   ELSE [@ EXCEPT !.pc = "existing.RLock", !.g = existing]])

\* existing.RLock()
RLockExisting(w) ==
    /\ threads[w].pc = "existing.RLock"
    /\ Acquires(w)
    /\ SetStoreWith(Store, [threads EXCEPT ![w].pc = "collect"])

\* the loop over existing.Channels; existing.RUnlock()
CollectWindows(w) ==
    /\ threads[w].pc = "collect"
    /\ SetStoreWith(Store, [threads EXCEPT ![w] = [@ EXCEPT !.pc = "s.Lock again",
                                                            !.g = NilAddr]])

\* s.Lock()
LockStateAgain(w) ==
    /\ threads[w].pc = "s.Lock again"
    /\ Acquires(w)
    /\ SetStoreWith(Store, [threads EXCEPT ![w].pc = "build"])

\* the rest of GuildCreate; the deferred s.Unlock()
BuildGuild(w) ==
    /\ threads[w].pc = "build"
    /\ SetStoreWith(GuildCreate(Store, threads[w].evt[1].data),
                    [threads EXCEPT ![w] = Idle])

\* MessageCreate: s.Channel(true, evt.ChannelID) takes s.RLock()
RLockState(w) ==
    /\ threads[w].pc = "s.RLock"
    /\ Acquires(w)
    /\ SetStoreWith(Store, [threads EXCEPT ![w].pc = "lookup"])

\* return s.channels[id]; the deferred s.RUnlock()
LookUpChannel(w) ==
    /\ threads[w].pc = "lookup"
    /\ LET c == StateChannel(Store, threads[w].evt[1].data.ChannelID)
       IN  SetStoreWith(Store,
               [threads EXCEPT ![w] =
                   IF c = NilAddr THEN Idle
                   ELSE [@ EXCEPT !.pc = "guild.Lock", !.c = c,
                                  !.g = chanObjs[c].Guild]])

\* channel.Guild.Lock() (state.go), c.Owner.Lock() in MessageAddUpdate
\* (part_002)
LockGuild(w) ==
    /\ threads[w].pc = "guild.Lock"
    /\ Acquires(w)
    /\ SetStoreWith(Store, [threads EXCEPT ![w].pc = "add"])

\* channel.MessageAddUpdate; the deferred Unlock
AddMessage(w) ==
    /\ threads[w].pc = "add"
    /\ SetStoreWith([Store EXCEPT !.chanObjs[threads[w].c].Messages =
                        MessageAddUpdate(@, threads[w].evt[1].data,
                                         MaxChannelMessages, MaxMessageAge, now)],
                    [threads EXCEPT ![w] = Idle])

InitLocks ==
    /\ build \in Builds
    /\ MaxChannelMessages = Unbounded
    /\ MaxMessageAge = 0
    /\ TrackChannels = TRUE
    /\ ThrowAwayDMMessages = TRUE
    /\ RemoveDeletedMessages = TRUE
    /\ TrackAll
    /\ StoreIs(Settled(GuildCreate(GuildCreate(NewState, LockedGuild(1)),
                                   LockedGuild(2))))
    /\ now = 1
    /\ last = NoEvent
    /\ arrivals = <<>>
    /\ pows = EmptyMap
    /\ held = None
    /\ threads = [w \in Workers |-> Idle]
    /\ timers = <<>>
    /\ returned = None /\ DirectIdle

NextLocks ==
    \/ \E w \in Workers, e \in LockEvents : Dispatch(w, e) /\ ConcFrame
    \/ \E w \in Workers : LockState(w) /\ ConcFrame
    \/ \E w \in Workers : FindExisting(w) /\ ConcFrame
    \/ \E w \in Workers : RLockExisting(w) /\ ConcFrame
    \/ \E w \in Workers : CollectWindows(w) /\ ConcFrame
    \/ \E w \in Workers : LockStateAgain(w) /\ ConcFrame
    \/ \E w \in Workers : BuildGuild(w) /\ ConcFrame
    \/ \E w \in Workers : RLockState(w) /\ ConcFrame
    \/ \E w \in Workers : LookUpChannel(w) /\ ConcFrame
    \/ \E w \in Workers : LockGuild(w) /\ ConcFrame
    \/ \E w \in Workers : AddMessage(w) /\ ConcFrame

SpecLocks == InitLocks /\ [][NextLocks]_vars

\* C22 as claimed: a handler of an event for one guild never waits for a
\* lock that a handler of an event for another guild holds.
C22_OtherGuildsNeverBlock ==
    \A w, v \in Workers :
        BlockedBy(w, v) => threads[w].evt[1].guild = threads[v].evt[1].guild

\* GuildCreate hands the slice of an old window to the channel state it
\* makes for the same channel: an entry that the windows of two channel
\* states of one channel have in common is one MessageState.
SameMessageStorage(c, d) ==
    \/ c = d
    \/ /\ chanObjs[c].id = chanObjs[d].id
       /\ Range(IDsOf(chanObjs[c].Messages)) \cap Range(IDsOf(chanObjs[d].Messages)) # {}

\* C37 as claimed: two handlers that each hold a write lock and are about
\* to change the entries of the same message storage hold the same lock.
C37_OneLockGuardsAWindow ==
    \A w, v \in Workers :
        (/\ threads[w].pc = "add" /\ threads[v].pc = "add"
         /\ SameMessageStorage(threads[w].c, threads[v].c))
            => threads[w].g = threads[v].g

(***************************************************************************)
(* SpecReaders: goroutines that ask the guild g1 for the permissions of a  *)
(* member (MemberPermissions(true, ..)) or for a member (Member(true, ..)),*)
(* one step per lock operation.  A goroutine at "g.Lock" or "g.RLock"      *)
(* waits for the guild's lock, one at "permissions" or "member" holds it.  *)
(***************************************************************************)
ReadersGuild ==
    [GuildPayload("g1", "n", Some(<<GuildChannel("c1", "g1", "a")>>))
     EXCEPT !.OwnerID = "owner",
            !.Roles = Some(<<Role("g1", PermissionSendMessages), Role("r1", {})>>),
            !.Members = <<Member("u1", Some(<<"r1">>))>>]

ReaderCalls ==
    {[kind |-> "MemberPermissions", channel |-> c, member |-> m] :
        c \in {"c1", "c9"}, m \in {"owner", "u1", "u9"}}
    \cup {[kind |-> "Member", channel |-> EmptyStr, member |-> "u1"]}

InitReaders ==
    /\ build \in Builds
    /\ MaxChannelMessages = Unbounded
    /\ MaxMessageAge = 0
    /\ TrackChannels = TRUE
    /\ ThrowAwayDMMessages = TRUE
    /\ RemoveDeletedMessages = TRUE
    /\ TrackAll
    /\ StoreIs(Settled(GuildCreate(NewState, ReadersGuild)))
    /\ now = 1
    /\ last = NoEvent
    /\ arrivals = <<>>
    /\ pows = <<>>
    /\ held = None
    /\ threads = [w \in Workers |-> Idle]
    /\ timers = <<>>
    /\ returned = None /\ DirectIdle

ReadersFrame == ~panicked /\ UNCHANGED <<config, now, arrivals, pows, held, timers, direct>>

\* The method is called with lock = true.
CallReader(w, call) ==
    /\ threads[w].pc = "idle"
    /\ SetStoreWith(Store,
           [threads EXCEPT ![w] =
               [pc |-> IF call.kind = "MemberPermissions" THEN "g.Lock" ELSE "g.RLock",
                evt |-> Some(call), g |-> StateGuild(Store, "g1"), c |-> NilAddr]])
    /\ UNCHANGED <<last, returned>>

\* MemberPermissions: g.Lock()
LockForPermissions(w) ==
    /\ threads[w].pc = "g.Lock"
    /\ Acquires(w)
    /\ SetStoreWith(Store, [threads EXCEPT ![w].pc = "permissions"])
    /\ UNCHANGED <<last, returned>>

\* the computation; the deferred g.Unlock()
ComputePermissions(w) ==
    /\ threads[w].pc = "permissions"
    /\ returned' = Some(MemberPermissions(Store, pows, threads[w].g,
                                          threads[w].evt[1].channel,
                                          threads[w].evt[1].member))
    /\ last' = [NoEvent EXCEPT !.kind = "MemberPermissions",
                               !.channel = threads[w].evt[1].channel,
                               !.payload = Some(threads[w].evt[1].member)]
    /\ SetStoreWith(Store, [threads EXCEPT ![w] = Idle])

\* Member: g.RLock()
RLockForMember(w) ==
    /\ threads[w].pc = "g.RLock"
    /\ Acquires(w)
    /\ SetStoreWith(Store, [threads EXCEPT ![w].pc = "member"])
    /\ UNCHANGED <<last, returned>>

\* return g.Members[id]; the deferred g.RUnlock()
ReadMember(w) ==
    /\ threads[w].pc = "member"
    /\ last' = [NoEvent EXCEPT !.kind = "Member",
                               !.payload = Some(threads[w].evt[1].member)]
    /\ SetStoreWith(Store, [threads EXCEPT ![w] = Idle])
    /\ UNCHANGED returned

NextReaders ==
    \/ \E w \in Workers, call \in ReaderCalls : CallReader(w, call) /\ ReadersFrame
    \/ \E w \in Workers : LockForPermissions(w) /\ ReadersFrame
    \/ \E w \in Workers : ComputePermissions(w) /\ ReadersFrame
    \/ \E w \in Workers : RLockForMember(w) /\ ReadersFrame
    \/ \E w \in Workers : ReadMember(w) /\ ReadersFrame

SpecReaders == InitReaders /\ [][NextReaders]_vars

\* C32 as claimed: a goroutine inside the computation of MemberPermissions
\* keeps no other permission check and no other reader of the guild
\* waiting for the guild's lock.
C32_PermissionChecksShareTheGuild ==
    \A w, v \in Workers : threads[v].pc = "permissions" => ~BlockedBy(w, v)

(***************************************************************************)
(* SpecNesting: the handlers of guild create, guild update, guild delete,  *)
(* ready and presence update events for the guild g1 run in NumWorkers     *)
(* goroutines next to the goroutine of an eviction timer, one              *)
(* step per lock operation.  The State removes offline members; a presence *)
(* update that starts a timer is dispatched while no timer is pending.     *)
(* A handler's changes are applied in the step that ends the critical      *)
(* section they are made in.                                               *)
(***************************************************************************)
TimerThread == NumWorkers + 1
Goroutines == 1..TimerThread

NestedEvents ==
    {[kind |-> "GuildCreate", guild |-> "g1", data |-> LockedGuild(1)],
     [kind |-> "Ready", guild |-> "g1",
      data |-> [PrivateChannels |-> <<>>, Guilds |-> <<LockedGuild(1)>>]],
     [kind |-> "GuildUpdate", guild |-> "g1", data |-> LockedGuild(1)],
     [kind |-> "GuildDelete", guild |-> "g1", data |-> LockedGuild(1)],
     [kind |-> "PresenceUpdate", guild |-> "g1", data |-> Presence("u1", "offline")]}

\* Where HandleEvent takes its first lock.
EntryPoint(e) ==
    CASE e.kind = "GuildCreate" -> "s.Lock"
      [] e.kind = "Ready" -> "ready s.Lock"
      [] e.kind = "GuildUpdate" -> "s.RLock guild"
      [] e.kind = "GuildDelete" -> "remove s.Lock"
      [] e.kind = "PresenceUpdate" -> "s.RLock guild"

TimerIdle ==
    /\ threads[TimerThread].pc = "idle"
    /\ \A w \in Workers :
           IF threads[w].pc = "idle" THEN TRUE
           ELSE threads[w].evt[1].kind # "PresenceUpdate"

NestedDispatch(w, e) ==
    /\ threads[w].pc = "idle"
    /\ e.kind = "PresenceUpdate" => TimerIdle
    /\ SetStoreWith(Store,
           [threads EXCEPT ![w] =
               [pc |-> EntryPoint(e), evt |-> Some(e), g |-> NilAddr, c |-> NilAddr]])

\* HandleReady: s.Lock()
ReadyLocksState(w) ==
    /\ threads[w].pc = "ready s.Lock"
    /\ Acquires(w)
    /\ SetStoreWith(Store, [threads EXCEPT ![w].pc = "ready"])

\* The loop over r.Guilds reaches the guild.  state.go calls
\* GuildCreate(false, v), which for a known guild releases the State's lock
\* to read the old windows; part_002 calls GuildUpdate(false, v) for a known
\* guild, which goes on to GuildState.GuildUpdate(true, v).
ReadyFindsGuild(w) ==
    /\ threads[w].pc = "ready"
    /\ LET existing == StateGuild(Store, threads[w].evt[1].guild)
       IN  SetStoreWith(Store,
               [threads EXCEPT ![w] =
                   IF existing = NilAddr THEN [@ EXCEPT !.pc = "ready build"]
                   ELSE IF build = "part_002"
                        THEN [@ EXCEPT !.pc = "ready g.Lock", !.g = existing]
                        ELSE [@ EXCEPT !.pc = "ready existing.RLock", !.g = existing]])

\* state.go: existing.RLock()
ReadyRLocksExisting(w) ==
    /\ threads[w].pc = "ready existing.RLock"
    /\ Acquires(w)
    /\ SetStoreWith(Store, [threads EXCEPT ![w].pc = "ready collect"])

\* state.go: the loop over existing.Channels; existing.RUnlock()
ReadyCollects(w) ==
    /\ threads[w].pc = "ready collect"
    /\ SetStoreWith(Store, [threads EXCEPT ![w].pc = "ready s.Lock again"])

\* state.go: s.Lock()
ReadyLocksStateAgain(w) ==
    /\ threads[w].pc = "ready s.Lock again"
    /\ Acquires(w)
    /\ SetStoreWith(Store, [threads EXCEPT ![w].pc = "ready build"])

\* part_002: g.Lock() in GuildState.GuildUpdate, under the State's lock
ReadyLocksGuild(w) ==
    /\ threads[w].pc = "ready g.Lock"
    /\ Acquires(w)
    /\ SetStoreWith(Store, [threads EXCEPT ![w].pc = "ready update"])

\* The rest of HandleReady and its deferred s.Unlock()
ReadyReturns(w) ==
    /\ threads[w].pc \in {"ready build", "ready update"}
    /\ SetStoreWith(HandleReady(Store, build, threads[w].evt[1].data),
                    [threads EXCEPT ![w] = Idle])

\* s.Guild(true, id): s.RLock()
RLocksState(w) ==
    /\ threads[w].pc = "s.RLock guild"
    /\ Acquires(w)
    /\ SetStoreWith(Store, [threads EXCEPT ![w].pc = "lookup guild"])

\* return s.Guilds[id]; the deferred s.RUnlock().  State.GuildUpdate goes
\* on to GuildCreate(true, g) when there is no such guild.
FindsGuild(w) ==
    /\ threads[w].pc = "lookup guild"
    /\ LET g == StateGuild(Store, threads[w].evt[1].guild)
       IN  SetStoreWith(Store,
               [threads EXCEPT ![w] =
                   IF g # NilAddr THEN [@ EXCEPT !.pc = "g.Lock event", !.g = g]
                   ELSE IF @.evt[1].kind = "GuildUpdate" THEN [@ EXCEPT !.pc = "s.Lock"]
                   ELSE Idle])

\* g.Lock() of the GuildState method called with lock = true
LocksGuild(w) ==
    /\ threads[w].pc = "g.Lock event"
    /\ Acquires(w)
    /\ SetStoreWith(Store, [threads EXCEPT ![w].pc = "in guild"])

\* The method and its deferred g.Unlock(): GuildState.GuildUpdate, or
\* PresenceAddUpdate, which starts the timer
LeavesGuild(w) ==
    /\ threads[w].pc = "in guild"
    /\ LET th == threads[w]
           e == th.evt[1]
       IN  IF e.kind = "PresenceUpdate"
           THEN SetStoreWith(PresenceAddUpdate(Store, th.g, e.data),
                    [threads EXCEPT
                        ![w] = Idle,
                        ![TimerThread] =
                            IF StartsEvictionTimer(e.data, RemoveOfflineMembers)
                            THEN [pc |-> "pending", evt |-> Some(e), g |-> th.g,
                                  c |-> NilAddr]
                            ELSE @])
           ELSE SetStoreWith(GuildStateGuildUpdate(Store, th.g, e.data),
                             [threads EXCEPT ![w] = Idle])

\* GuildRemove: s.Lock()
RemoveLocksState(w) ==
    /\ threads[w].pc = "remove s.Lock"
    /\ Acquires(w)
    /\ SetStoreWith(Store, [threads EXCEPT ![w].pc = "remove"])

\* the rest of GuildRemove; the deferred s.Unlock()
RemoveReturns(w) ==
    /\ threads[w].pc = "remove"
    /\ SetStoreWith(GuildRemove(Store, threads[w].evt[1].guild),
                    [threads EXCEPT ![w] = Idle])

\* The minute is over: the runtime runs the function given to AfterFunc.
TimerGoesOff ==
    /\ threads[TimerThread].pc = "pending"
    /\ SetStoreWith(Store, [threads EXCEPT ![TimerThread].pc = "timer g.Lock"])

\* g.Lock() in the function
TimerLocksGuild ==
    /\ threads[TimerThread].pc = "timer g.Lock"
    /\ Acquires(TimerThread)
    /\ SetStoreWith(Store, [threads EXCEPT ![TimerThread].pc = "evict"])

\* the check of the member, MemberRemove, the deferred g.Unlock()
TimerEvicts ==
    /\ threads[TimerThread].pc = "evict"
    /\ SetStoreWith(EvictIfOffline(Store, threads[TimerThread].g,
                                   threads[TimerThread].evt[1].data.User.ID),
                    [threads EXCEPT ![TimerThread] = Idle])

InitNesting ==
    /\ build \in Builds
    /\ MaxChannelMessages = Unbounded
    /\ MaxMessageAge = 0
    /\ TrackChannels = TRUE
    /\ ThrowAwayDMMessages = TRUE
    /\ RemoveDeletedMessages = TRUE
    /\ TrackMembers = TRUE /\ TrackRoles = TRUE /\ TrackVoice = TRUE
    /\ TrackPresences = TRUE /\ RemoveOfflineMembers = TRUE
    /\ StoreIs(Settled(GuildCreate(NewState, LockedGuild(1))))
    /\ now = 1
    /\ last = NoEvent
    /\ arrivals = <<>>
    /\ pows = EmptyMap
    /\ held = None
    /\ threads = [t \in Goroutines |-> Idle]
    /\ timers = <<>>
    /\ returned = None /\ FlatIdle /\ sending = None
    /\ standing = [t \in Goroutines |-> "idle"]

\* What every step of SpecNesting leaves alone; standing follows threads.
NestingFrame ==
    /\ ~panicked
    /\ UNCHANGED <<config, now, last, arrivals, pows, held, timers, returned, flat,
                   sending>>
    /\ standing' = [t \in Goroutines |-> threads'[t].pc]

\* The steps of the goroutine t after the dispatch.
Proceeds(t) ==
    \/ t \in Workers /\ LockState(t) /\ NestingFrame
    \/ t \in Workers /\ FindExisting(t) /\ NestingFrame
    \/ t \in Workers /\ RLockExisting(t) /\ NestingFrame
    \/ t \in Workers /\ CollectWindows(t) /\ NestingFrame
    \/ t \in Workers /\ LockStateAgain(t) /\ NestingFrame
    \/ t \in Workers /\ BuildGuild(t) /\ NestingFrame
    \/ t \in Workers /\ ReadyLocksState(t) /\ NestingFrame
    \/ t \in Workers /\ ReadyFindsGuild(t) /\ NestingFrame
    \/ t \in Workers /\ ReadyRLocksExisting(t) /\ NestingFrame
    \/ t \in Workers /\ ReadyCollects(t) /\ NestingFrame
    \/ t \in Workers /\ ReadyLocksStateAgain(t) /\ NestingFrame
    \/ t \in Workers /\ ReadyLocksGuild(t) /\ NestingFrame
    \/ t \in Workers /\ ReadyReturns(t) /\ NestingFrame
    \/ t \in Workers /\ RLocksState(t) /\ NestingFrame
    \/ t \in Workers /\ FindsGuild(t) /\ NestingFrame
    \/ t \in Workers /\ LocksGuild(t) /\ NestingFrame
    \/ t \in Workers /\ LeavesGuild(t) /\ NestingFrame
    \/ t \in Workers /\ RemoveLocksState(t) /\ NestingFrame
    \/ t \in Workers /\ RemoveReturns(t) /\ NestingFrame
    \/ t = TimerThread /\ TimerGoesOff /\ NestingFrame
    \/ t = TimerThread /\ TimerLocksGuild /\ NestingFrame
    \/ t = TimerThread /\ TimerEvicts /\ NestingFrame

NextNesting ==
    \/ \E w \in Workers, e \in NestedEvents : NestedDispatch(w, e) /\ NestingFrame
    \/ \E t \in Goroutines : Proceeds(t)

SpecNesting == InitNesting /\ [][NextNesting]_vars

Positions ==
    {"idle", "pending", "s.Lock", "existing", "existing.RLock", "collect",
     "s.Lock again", "build", "ready s.Lock", "ready", "ready existing.RLock",
     "ready collect", "ready s.Lock again", "ready g.Lock", "ready build",
     "ready update", "s.RLock guild", "lookup guild", "g.Lock event", "in guild",
     "remove s.Lock", "remove", "timer g.Lock", "evict"}

\* The goroutine t has a step to take and is not kept waiting for a lock.
CanProceed(t) ==
    /\ ~panicked
    /\ standing[t] # "idle"
    /\ Wants(threads[t]) # None => Acquires(t)

\* A step of the goroutine t as standing shows it: t stands elsewhere, and
\* the timer may have been started.  Of the steps of NextNesting these are
\* the steps of Proceeds(t), and one is possible when CanProceed(t).
Moves(t) ==
    /\ CanProceed(t)
    /\ \E p \in Positions \ {standing[t]}, q \in {standing[TimerThread], "pending"} :
           standing' = [[standing EXCEPT ![TimerThread] = q] EXCEPT ![t] = p]

LockWanted(t) == Wants(threads[t])[1].lock

\* Another goroutine takes the lock the goroutine t is waiting for, in a
\* mode that keeps t waiting.
Overtaken(t) ==
    /\ Wants(threads[t]) # None
    /\ \E v \in Goroutines \ {t} :
           /\ Wants(threads[v]) # None
           /\ Wants(threads[v])[1].lock = LockWanted(t)
           /\ "w" \in {Wants(threads[v])[1].mode, Wants(threads[t])[1].mode}
           /\ threads'[v].pc # threads[v].pc

\* sync.RWMutex and sync.Mutex let a waiting goroutine be passed only a
\* bounded number of times: a blocked Lock keeps new readers out, Unlock
\* lets the blocked readers in before the next writer, and a starving
\* waiter of the Mutex is handed the lock.
BoundedBypass(t) ==
    \/ []<>(Wants(threads[t]) = None)
    \/ <>[][~Overtaken(t)]_vars

\* A goroutine that can proceed again and again does so in the end, a
\* goroutine waiting in Lock or RLock is not passed for ever, and the
\* runtime runs the timer's function.
FairSpecNesting ==
    SpecNesting /\ \A t \in Goroutines : SF_standing(Moves(t)) /\ BoundedBypass(t)

\* No goroutine asks for the State's lock while it holds a guild's.
RootNeverUnderGuild ==
    \A t \in Goroutines :
        (Wants(threads[t]) # None /\ LockWanted(t) = StateLock)
            => \A h \in HeldLocks(threads[t]) : h.lock = StateLock

\* The timer's goroutine holds nothing while the timer is pending, and asks
\* for and holds nothing but the guild's lock when it runs.
TimerTakesGuildLockOnly ==
    LET th == threads[TimerThread]
    IN  /\ th.pc \in {"idle", "pending"} => Wants(th) = None /\ HeldLocks(th) = {}
        /\ Wants(th) # None => Wants(th)[1] = [lock |-> GuildLock(th.g), mode |-> "w"]
        /\ \A h \in HeldLocks(th) : h.lock = GuildLock(th.g)

\* Some goroutines wait for locks that goroutines among them hold.
Deadlocked ==
    \E waiting \in SUBSET Goroutines \ {{}} :
        \A t \in waiting : \E v \in waiting : BlockedBy(t, v)

\* C31: no goroutine asks for the State's lock while it holds a guild's
\* lock, the eviction timer takes the guild's lock only, and takes it when
\* it runs, no goroutines wait for each other, and every handler that was
\* dispatched and every timer that was started returns.
C31_HandlersAndTimersNeverDeadlock ==
    /\ [](RootNeverUnderGuild /\ TimerTakesGuildLockOnly /\ ~Deadlocked)
    /\ \A t \in Goroutines : (threads[t].pc # "idle") ~> (threads[t].pc = "idle")

\* part_002's HandleReady holds the State's lock and the guild's lock in
\* GuildState.GuildUpdate; the timer waits for the guild's lock and another
\* handler for the State's.
C31_Witness ==
    \E w, v \in Workers :
        /\ threads[w].pc = "ready update"
        /\ BlockedBy(v, w)
        /\ threads[TimerThread].pc = "timer g.Lock"
        /\ BlockedBy(TimerThread, w)

====
